---- MODULE Spec2Model ----
(***************************************************************************)
(* Model of isnad2network/generate_json_network_isnad.py: the graph        *)
(* assembler generate_network_data and the pipeline driver                 *)
(* process_isnad_network.                                                  *)
(*                                                                         *)
(* Python dicts are functions whose domain is the set of keys present, so  *)
(* "key in d" is  k \in DOMAIN d  and  d.get(k, default)  is Get.           *)
(* Python lists are sequences; Python indices are kept 0-based in the      *)
(* loop counters (path_idx, i) and shifted by one where a sequence is      *)
(* indexed.                                                                *)
(***************************************************************************)
EXTENDS Integers, Sequences, FiniteSets, TLC

(***************************************************************************)
(* Bounds of the model.                                                    *)
(***************************************************************************)
\* Longest path list handed to generate_network_data.
MaxPaths == 2

\* Most rows in the names file.
MaxRows == 2

\* Most rows in the transmission-terms file.
MaxTransRows == 2

\* The longest annotation text handed to CellAnalyzer, in pieces.
MaxPieces == 3

\* The most full batches of rows analyze_all_cells goes through.
MaxBatches == 2

(***************************************************************************)
(* The environment.                                                        *)
(***************************************************************************)
\* What datetime.now() returns.
VARIABLE clock

(***************************************************************************)
(* Python values.                                                          *)
(***************************************************************************)
\* The empty dict {}.
EmptyDict == <<>>

\* The value None: a value that equals no dict and no list.
None == [py_none |-> TRUE]

\* d.get(k, default)
Get(d, k, default) == IF k \in DOMAIN d THEN d[k] ELSE default

\* datetime.now().strftime(...)
Timestamp(now) == "T" \o ToString(now)

\* Truth value of a str: the empty string is falsy.
Truthy(s) == s # ""

\* Truth value of a list: the empty list is falsy.  The text of an
\* annotation cell is modelled as the list of its tokens (words, commas,
\* blanks), so this is also the truth value of such a text.
NonEmpty(seq) == seq # <<>>

(***************************************************************************)
(* Table cells as pandas.read_csv yields them.  A cell is a record that    *)
(* says what kind of value it holds: NaN for an empty field, Str for text, *)
(* Int64 and Float64 for numbers.                                          *)
(***************************************************************************)
NaN == [nan |-> TRUE]

Str(s) == [str |-> s]

Int64(n) == [int |-> n]

Float64(n) == [float |-> n]

\* pd.notna(value)
NotNa(value) == value # NaN

\* The number a numeric cell holds.
Num(value) == IF "int" \in DOMAIN value THEN value.int ELSE value.float

\* "a == b" on cells that hold numbers or NaN: NaN equals nothing.
NumEq(a, b) == NotNa(a) /\ NotNa(b) /\ Num(a) = Num(b)

\* f"{path_id}": an int prints its digits, a float a decimal point too.
FormatId(path_id) ==
    IF path_id = NaN THEN "nan"
    ELSE IF "float" \in DOMAIN path_id
         THEN ToString(path_id.float) \o ".0"
         ELSE ToString(path_id.int)

\* f"{path_id}_{col}"
CellId(path_id, col) == FormatId(path_id) \o "_" \o col

(***************************************************************************)
(* Text.  A str that is looked into (stripped, split, searched) is the     *)
(* sequence of its characters; an Arabic letter is written as its          *)
(* transliteration.                                                        *)
(***************************************************************************)
Space == " "

Comma == ","

\* The Arabic comma.
ArabicComma == "U+060C"

\* The riwayah indicators.
Haddathana == <<"H", "d", "th", "n", "A">>

Akhbarana == <<"'A", "kh", "b", "r", "n", "A">>

Samitu == <<"s", "m", "E", "t">>

An == <<"E", "n">>

Rawa == <<"r", "w", "Y">>

riwayah_indicators == <<Haddathana, Akhbarana, Samitu, An, Rawa>>

\* The tilawah indicators.
Qaraatu == <<"q", "r", "'A", "t">>

Qaraa == <<"q", "r", "'A">>

Tala == <<"t", "l", "A">>

tilawah_indicators == <<Qaraatu, Qaraa, Tala>>

\* A word that holds no indicator.
Qala == <<"q", "A", "l">>

\* The elements of a list.
Range(seq) == {seq[k] : k \in 1..Len(seq)}

RECURSIVE LStrip(_)
LStrip(text) ==
    IF text # <<>> /\ Head(text) = Space THEN LStrip(Tail(text)) ELSE text

RECURSIVE RStrip(_)
RStrip(text) ==
    IF text # <<>> /\ text[Len(text)] = Space
    THEN RStrip(SubSeq(text, 1, Len(text) - 1))
    ELSE text

\* text.strip()
Strip(text) == RStrip(LStrip(text))

\* text.replace(old, new) for single characters
Replace(text, old, new) ==
    [k \in 1..Len(text) |-> IF text[k] = old THEN new ELSE text[k]]

\* text.split(sep) for a single character sep
RECURSIVE Split(_, _)
Split(text, sep) ==
    IF \E k \in 1..Len(text) : text[k] = sep
    THEN LET k == CHOOSE j \in 1..Len(text) :
                      text[j] = sep /\ \A h \in 1..(j - 1) : text[h] # sep
         IN  <<SubSeq(text, 1, k - 1)>>
                 \o Split(SubSeq(text, k + 1, Len(text)), sep)
    ELSE <<text>>

\* "pattern in text"
Contains(text, pattern) ==
    \E k \in 0..(Len(text) - Len(pattern)) :
        SubSeq(text, k + 1, k + Len(pattern)) = pattern

(***************************************************************************)
(* TransmissionTerm.                                                       *)
(***************************************************************************)
\* TransmissionTerm._extract_terms
ExtractTerms(original_text) ==
    LET raw_terms == Split(Replace(original_text, ArabicComma, Comma), Comma)
        stripped == [k \in 1..Len(raw_terms) |-> Strip(raw_terms[k])]
    IN  SelectSeq(stripped, NonEmpty)

\* _classify with the tilawah test moved in front of the mixed test.
ClassifyTilawahFirst(original_text, terms) ==
    LET has_riwayah ==
            \E ri \in Range(riwayah_indicators) : Contains(original_text, ri)
        has_tilawah ==
            \E ti \in Range(tilawah_indicators) : Contains(original_text, ti)
    IN  IF ~NonEmpty(terms) THEN "unknown"
        ELSE IF has_tilawah THEN "tilawah"
        ELSE IF has_riwayah /\ has_tilawah THEN "mixed"
        ELSE IF has_riwayah THEN "riwayah"
        ELSE "other"

\* TransmissionTerm._classify
Classify(original_text, terms) ==
    LET has_riwayah ==
            \E ri \in Range(riwayah_indicators) : Contains(original_text, ri)
        has_tilawah ==
            \E ti \in Range(tilawah_indicators) : Contains(original_text, ti)
    IN  IF ~NonEmpty(terms) THEN "unknown"
        ELSE IF has_riwayah /\ has_tilawah THEN "mixed"
        ELSE IF has_riwayah THEN "riwayah"
        ELSE IF has_tilawah THEN "tilawah"
        ELSE "other"

\* TransmissionTerm(term_text)
TransmissionTerm(term_text) ==
    LET original_text ==
            IF NotNa(term_text) THEN Strip(term_text.str) ELSE <<>>
        terms ==
            IF NonEmpty(original_text)
            THEN ExtractTerms(original_text) ELSE <<>>
    IN  [original_text |-> original_text,
         terms |-> terms,
         primary_classification |->
            IF NonEmpty(original_text)
            THEN Classify(original_text, terms) ELSE "unknown"]

\* TransmissionTerm.to_dict
TermToDict(term) ==
    [original_text |-> term.original_text,
     terms |-> term.terms,
     primary_classification |-> term.primary_classification]

(***************************************************************************)
(* CellAnalyzer.                                                           *)
(***************************************************************************)
\* pd.isna(cell_value) or cell_value == ""
IsEmptyCell(cell_value) == ~NotNa(cell_value) \/ cell_value = Str(<<>>)

\* CellAnalyzer(cell_value, cell_id)
CellAnalyzer(cell_value, cell_id) ==
    [cell_value |-> cell_value,
     cell_id |-> cell_id,
     is_empty |-> IsEmptyCell(cell_value),
     analysis |-> IF IsEmptyCell(cell_value)
                     THEN None ELSE TransmissionTerm(cell_value)]

\* CellAnalyzer.is_mixed_mode
IsMixedMode(cell_analyzer) ==
    /\ ~cell_analyzer.is_empty
    /\ cell_analyzer.analysis # None
    /\ cell_analyzer.analysis.primary_classification = "mixed"

\* CellAnalyzer.to_dict
CellToDict(cell_analyzer) ==
    IF cell_analyzer.is_empty THEN None
    ELSE TermToDict(cell_analyzer.analysis)

(***************************************************************************)
(* Inputs: the path records a caller can put in isnad_data["paths"].       *)
(***************************************************************************)
\* Slot columns in the order sorted() gives them.
SlotCols == <<"t1", "t2", "t3">>

\* Term records as TransmissionTerm.to_dict() produces them.
Riwayah == TermToDict(TransmissionTerm(Str(Haddathana)))

Tilawah == TermToDict(TransmissionTerm(Str(Qaraatu)))

\* The record of a delimiter-only cell (","): text kept, no terms, and the
\* classification left at its initial "unknown".
Delimiter == TermToDict(TransmissionTerm(Str(<<Comma>>)))

\* names mappings: slot column -> transmitter name.
PathNames ==
    { [t1 |-> "A", t2 |-> "B"],                 \* two populated slots
      [t1 |-> "A", t2 |-> "B", t3 |-> "A"],     \* a name returns in the path
      [t1 |-> "B", t2 |-> "A"],                 \* the reverse hop
      [t1 |-> "A", t3 |-> "B"],                 \* t2 left out of the mapping
      [t1 |-> "A", t2 |-> "", t3 |-> "B"],      \* t2 present and empty
      EmptyDict }                               \* no slot at all

\* term_analysis mappings: slot column -> term record or None.
PathTerms ==
    { EmptyDict,
      [t1 |-> Riwayah, t2 |-> Tilawah],
      [t1 |-> None, t2 |-> Delimiter, t3 |-> Riwayah] }

\* The remaining keys of a path record: none of them (every .get falls
\* back to its default), or all of them.
PathIdent ==
    { EmptyDict,
      [path_id |-> "p1", isnad_id |-> "jb_001",
       metadata |-> [Reader |-> "Nafi", Transmitter |-> "Qalun",
                     Path |-> "Madina", _mode |-> "sama"]] }

PathRecords ==
    { ident @@ [names |-> nm, term_analysis |-> ta] :
        ident \in PathIdent, nm \in PathNames, ta \in PathTerms }

PathLists == UNION { [1..n -> PathRecords] : n \in 0..MaxPaths }

\* isnad_data: None, a dict without "paths", or a dict with a path list.
IsnadInputs ==
    {None} \cup {[metadata |-> EmptyDict]}
        \cup { [metadata |-> EmptyDict, paths |-> ps] : ps \in PathLists }

(***************************************************************************)
(* generate_network_data: the per-path locals.                             *)
(***************************************************************************)
\* path.get('path_id', f"unknown_{path_idx}")
PathId(path, idx) == Get(path, "path_id", "unknown_" \o ToString(idx))

\* path.get('isnad_id', "")
IsnadId(path) == Get(path, "isnad_id", "")

\* path.get('names', {})
NamesOf(path) == Get(path, "names", EmptyDict)

\* path.get('term_analysis', {})
TermAnalysisOf(path) == Get(path, "term_analysis", EmptyDict)

\* path.get('metadata', {})
MetadataOf(path) == Get(path, "metadata", EmptyDict)

\* The path summary is identified by the position of the path alone.
NewPathEntryByPosition(path, idx) ==
    [path_id |-> "unknown_" \o ToString(idx), isnad_id |-> "",
     nodes |-> <<>>, edges |-> <<>>, metadata |-> MetadataOf(path)]

\* The path summary a path starts with.
NewPathEntry(path, idx) ==
    [path_id |-> PathId(path, idx), isnad_id |-> IsnadId(path),
     nodes |-> <<>>, edges |-> <<>>, metadata |-> MetadataOf(path)]

\* sorted() of the keys of names that are slot columns.  SlotCols lists the
\* slot columns in sorted order, so the sorted list is its subsequence.
TColumns(names) == SelectSeq(SlotCols, LAMBDA c : c \in DOMAIN names)

\* "col in names and names[col]"
Populated(names, col) == col \in DOMAIN names /\ Truthy(names[col])

(***************************************************************************)
(* generate_network_data: one iteration of the slot loop.  The state s is  *)
(* [network, node_dict, unique_nodes, unique_edges, path_entry].           *)
(***************************************************************************)
\* Node ids that carry the time of the call.
NodeIdFromClock(node_dict) ==
    "n" \o ToString(Cardinality(DOMAIN node_dict) + 1 + clock)

\* f"n{len(node_dict) + 1}"
NodeId(node_dict) == "n" \o ToString(Cardinality(DOMAIN node_dict) + 1)

\* Edge ids counted from 0.
EdgeIdFromZero(edges) == "e" \o ToString(Cardinality(edges))

EdgeId(edges) == "e" \o ToString(Cardinality(edges) + 1)

\* A node is created for every populated slot, seen before or not.
ResolveNodeAlways(s, name) ==
    LET node_id == NodeId(s.node_dict)
    IN  [s EXCEPT !.node_dict = (name :> node_id) @@ @,
                  !.unique_nodes = @ \cup {name},
                  !.network.nodes =
                      Append(@, [id |-> node_id, name |-> name,
                                 type |-> "transmitter"])]

\* The node of a populated slot: created when the name has none yet.
ResolveNode(s, name) ==
    IF name \notin DOMAIN s.node_dict
    THEN LET node_id == NodeId(s.node_dict)
         IN  [s EXCEPT !.node_dict = (name :> node_id) @@ @,
                       !.unique_nodes = @ \cup {name},
                       !.network.nodes =
                           Append(@, [id |-> node_id, name |-> name,
                                      type |-> "transmitter"])]
    ELSE s

\* "col in term_analysis and term_analysis[col] is not None"
HasTerm(term_analysis, col) ==
    col \in DOMAIN term_analysis /\ term_analysis[col] # None

\* The slot column after col.
NextCol(col) ==
    LET k == CHOOSE k \in 1..Len(SlotCols) : SlotCols[k] = col
    IN  IF k < Len(SlotCols) THEN SlotCols[k + 1] ELSE col

\* The edge type taken from the term of the slot after col, the target of
\* the hop.
EdgeTypeOfTarget(term_analysis, col) ==
    IF HasTerm(term_analysis, NextCol(col))
    THEN LET classification ==
                 Get(term_analysis[NextCol(col)], "primary_classification", "")
         IN  IF Truthy(classification) THEN classification ELSE "unknown"
    ELSE "unknown"

\* The edge type: the classification of the term of slot col, "unknown"
\* when there is none or it is falsy.
EdgeType(term_analysis, col) ==
    IF HasTerm(term_analysis, col)
    THEN LET classification ==
                 Get(term_analysis[col], "primary_classification", "")
         IN  IF Truthy(classification) THEN classification ELSE "unknown"
    ELSE "unknown"

\* The keys "label" and "terms" of a new edge: each is set only when the
\* term of slot col has a non-empty value for it.
TermDetails(term_analysis, col) ==
    IF HasTerm(term_analysis, col)
    THEN LET original_text == Get(term_analysis[col], "original_text", <<>>)
             terms == Get(term_analysis[col], "terms", <<>>)
         IN  (IF NonEmpty(original_text)
                 THEN [label |-> original_text] ELSE EmptyDict)
             @@ (IF NonEmpty(terms) THEN [terms |-> terms] ELSE EmptyDict)
    ELSE EmptyDict

\* edge_data as built for a new edge.
EdgeData(edge_id, source_id, target_id, edge_type, path, idx, col) ==
    [id |-> edge_id, source |-> source_id, target |-> target_id,
     type |-> edge_type,
     Reader |-> Get(MetadataOf(path), "Reader", ""),
     Transmitter |-> Get(MetadataOf(path), "Transmitter", ""),
     Path |-> Get(MetadataOf(path), "Path", ""),
     mode |-> Get(MetadataOf(path), "_mode", ""),
     path_id |-> PathId(path, idx), isnad_id |-> IsnadId(path)]
    @@ TermDetails(TermAnalysisOf(path), col)

\* An edge is created for every hop, its key seen before or not.
ResolveEdgeAlways(s, path, idx, col, source_id, target_id) ==
    LET edge_type == EdgeType(TermAnalysisOf(path), col)
        edge_id == EdgeId(s.unique_edges)
    IN  [s EXCEPT
            !.unique_edges = @ \cup {<<source_id, target_id, edge_type>>},
            !.network.edges =
                Append(@, EdgeData(edge_id, source_id, target_id,
                                   edge_type, path, idx, col)),
            !.path_entry.edges = Append(@, edge_id)]

\* A hop whose key is in unique_edges rewrites the edge that has the key
\* with the data of the path at hand.
ResolveEdgeOverwrite(s, path, idx, col, source_id, target_id) ==
    LET edge_type == EdgeType(TermAnalysisOf(path), col)
        edge_key == <<source_id, target_id, edge_type>>
    IN  IF edge_key \notin s.unique_edges
        THEN LET edge_id == EdgeId(s.unique_edges)
             IN  [s EXCEPT
                     !.unique_edges = @ \cup {edge_key},
                     !.network.edges =
                         Append(@, EdgeData(edge_id, source_id, target_id,
                                            edge_type, path, idx, col)),
                     !.path_entry.edges = Append(@, edge_id)]
        ELSE [s EXCEPT
                 !.network.edges =
                     [k \in 1..Len(@) |->
                         IF /\ @[k].source = source_id
                            /\ @[k].target = target_id
                            /\ @[k].type = edge_type
                         THEN EdgeData(@[k].id, source_id, target_id,
                                       edge_type, path, idx, col)
                         ELSE @[k]]]

\* The edge of a hop from slot col: created, and listed in the path's
\* summary, when its key is not in unique_edges yet.
ResolveEdge(s, path, idx, col, source_id, target_id) ==
    LET edge_type == EdgeType(TermAnalysisOf(path), col)
        edge_key == <<source_id, target_id, edge_type>>
    IN  IF edge_key \notin s.unique_edges
        THEN LET edge_id == EdgeId(s.unique_edges)
             IN  [s EXCEPT
                     !.unique_edges = @ \cup {edge_key},
                     !.network.edges =
                         Append(@, EdgeData(edge_id, source_id, target_id,
                                            edge_type, path, idx, col)),
                     !.path_entry.edges = Append(@, edge_id)]
        ELSE s

\* "if next_name in node_dict"
TargetKnown(node_dict, next_name) == next_name \in DOMAIN node_dict

\* The node of the target slot is created before the edge is considered.
ProcessSlotCreatingTarget(s, path, idx, k) ==
    LET names == NamesOf(path)
        t_columns == TColumns(names)
        col == t_columns[k + 1]
    IN  IF Populated(names, col)
        THEN LET name == names[col]
                 s1 == ResolveNode(s, name)
                 s2 == [s1 EXCEPT !.path_entry.nodes =
                                      Append(@, s1.node_dict[name])]
             IN  IF /\ k < Len(t_columns) - 1
                    /\ Populated(names, t_columns[k + 2])
                 THEN LET next_name == names[t_columns[k + 2]]
                          s3 == ResolveNode(s2, next_name)
                      IN  ResolveEdge(s3, path, idx, col,
                                      s3.node_dict[name],
                                      s3.node_dict[next_name])
                 ELSE s2
        ELSE s

\* The body of "for i in range(len(t_columns))" for one i.
ProcessSlot(s, path, idx, k) ==
    LET names == NamesOf(path)
        t_columns == TColumns(names)
        col == t_columns[k + 1]
    IN  IF Populated(names, col)
        THEN LET name == names[col]
                 s1 == ResolveNode(s, name)
                 s2 == [s1 EXCEPT !.path_entry.nodes =
                                      Append(@, s1.node_dict[name])]
             IN  IF /\ k < Len(t_columns) - 1
                    /\ Populated(names, t_columns[k + 2])
                 THEN LET next_name == names[t_columns[k + 2]]
                      IN  IF TargetKnown(s2.node_dict, next_name)
                          THEN ResolveEdge(s2, path, idx, col,
                                           s2.node_dict[name],
                                           s2.node_dict[next_name])
                          ELSE s2
                 ELSE s2
        ELSE s

\* The summary of every path is appended, with or without nodes.
AppendPathEntryAlways(net, entry) ==
    [net EXCEPT !.paths = Append(@, entry)]

\* "if path_entry["nodes"]: network["paths"].append(path_entry)"
AppendPathEntry(net, entry) ==
    IF entry.nodes # <<>>
    THEN [net EXCEPT !.paths = Append(@, entry)]
    ELSE net

(***************************************************************************)
(* Tables.  A CSV file's content is [columns, rows]; a DataFrame adds the  *)
(* dtype read_csv infers for each column.                                  *)
(***************************************************************************)
\* A row cut down to the columns of its table.
Restrict(row, cols) == [c \in Range(cols) |-> row[c]]

Table(cols, rows) ==
    [columns |-> cols,
     rows |-> [k \in 1..Len(rows) |-> Restrict(rows[k], cols)]]

\* The dtype of a column: object with text in it (or no row at all),
\* float64 for numbers with an empty field among them, int64 otherwise.
DType(rows, col) ==
    LET cells == {rows[k][col] : k \in 1..Len(rows)}
    IN  IF rows = <<>> \/ \E v \in cells : "str" \in DOMAIN v THEN "object"
        ELSE IF NaN \in cells THEN "float64"
        ELSE "int64"

\* A number as it sits in a float64 column or Series.
AsFloat(value) ==
    IF "int" \in DOMAIN value THEN Float64(value.int) ELSE value

\* pd.read_csv(file)
ReadCsv(content) ==
    LET dtypes == [c \in Range(content.columns) |-> DType(content.rows, c)]
    IN  [columns |-> content.columns,
         dtypes |-> dtypes,
         rows |-> [k \in 1..Len(content.rows) |->
                      [c \in Range(content.columns) |->
                          IF dtypes[c] = "float64"
                          THEN AsFloat(content.rows[k][c])
                          ELSE content.rows[k][c]]]]

\* The k-th row as iterrows() hands it out: one Series for the whole row,
\* so the numbers of an all-numeric table come out as floats when any
\* column is float64.
RowSeries(df, k) ==
    LET upcast == /\ \A c \in Range(df.columns) : df.dtypes[c] # "object"
                  /\ \E c \in Range(df.columns) : df.dtypes[c] = "float64"
    IN  [c \in Range(df.columns) |->
            IF upcast THEN AsFloat(df.rows[k][c]) ELSE df.rows[k][c]]

\* df.empty
IsEmptyDf(df) == df.columns = <<>> \/ df.rows = <<>>

\* col in df.columns
HasColumn(df, col) == col \in Range(df.columns)

\* col.startswith('t'), for the column names of the model.
StartsWithT(col) == col \in {"t1", "t2", "t3"}

\* col.startswith('t') and col != 'path_id' and col != 'isnad_id'
IsSlotColumn(col) == StartsWithT(col) /\ col # "path_id" /\ col # "isnad_id"

(***************************************************************************)
(* process_isnad_network: check_dimensions and filter_invalid_records.     *)
(***************************************************************************)
\* check_dimensions without the comparison of the row counts.
CheckDimensionsWithoutRowCount(names, trans, metadata) ==
    LET no_names_id == ~HasColumn(names, "path_id")
        no_trans_id == ~HasColumn(trans, "path_id")
        no_meta_id == metadata # None /\ ~HasColumn(metadata, "path_id")
    IN  [is_valid |-> ~(no_names_id \/ no_trans_id \/ no_meta_id),
         mismatch_details |->
            (IF no_names_id
                THEN [missing_path_id_in_names |-> TRUE] ELSE EmptyDict)
            @@ (IF no_trans_id
                   THEN [missing_path_id_in_trans |-> TRUE] ELSE EmptyDict)
            @@ (IF no_meta_id
                   THEN [missing_path_id_in_metadata |-> TRUE]
                   ELSE EmptyDict)]

check_dimensions(names, trans, metadata) ==
    LET no_names_id == ~HasColumn(names, "path_id")
        no_trans_id == ~HasColumn(trans, "path_id")
        row_mismatch == Len(names.rows) # Len(trans.rows)
        no_meta_id == metadata # None /\ ~HasColumn(metadata, "path_id")
    IN  [is_valid |->
            ~(no_names_id \/ no_trans_id \/ row_mismatch \/ no_meta_id),
         mismatch_details |->
            (IF no_names_id
                THEN [missing_path_id_in_names |-> TRUE] ELSE EmptyDict)
            @@ (IF no_trans_id
                   THEN [missing_path_id_in_trans |-> TRUE] ELSE EmptyDict)
            @@ (IF row_mismatch
                   THEN [row_count_mismatch |->
                            [names_df |-> Len(names.rows),
                             trans_df |-> Len(trans.rows)]]
                   ELSE EmptyDict)
            @@ (IF no_meta_id
                   THEN [missing_path_id_in_metadata |-> TRUE]
                   ELSE EmptyDict)]

\* df[pd.notna(df['path_id'])]['path_id'].unique(), as a set of numbers
ValidIds(df) ==
    {Num(df.rows[k].path_id) :
        k \in {j \in 1..Len(df.rows) : NotNa(df.rows[j].path_id)}}

\* A filter that keeps every row.
KeepAll(df, valid_ids) == df

\* df[df['path_id'].isin(valid_ids)].reset_index(drop=True)
KeepIds(df, valid_ids) ==
    [df EXCEPT !.rows =
        SelectSeq(@, LAMBDA row :
            NotNa(row.path_id) /\ Num(row.path_id) \in valid_ids)]

filter_invalid_records(names, trans, metadata) ==
    IF ~HasColumn(names, "path_id") \/ ~HasColumn(trans, "path_id")
    THEN [names_df |-> names, trans_df |-> trans, metadata_df |-> metadata,
          filtered_count |-> 0]
    ELSE LET valid_ids == ValidIds(names) \cap ValidIds(trans)
             kept == KeepIds(names, valid_ids)
         IN  [names_df |-> kept,
              trans_df |-> KeepIds(trans, valid_ids),
              metadata_df |->
                  IF metadata # None /\ HasColumn(metadata, "path_id")
                  THEN KeepIds(metadata, valid_ids) ELSE metadata,
              filtered_count |-> Len(names.rows) - Len(kept.rows)]

\* "if not is_valid": the filter would run even when it is to be skipped.
ShouldFilterAlways(report, skip) == ~report.is_valid

\* "if not is_valid and not skip_filtering"
ShouldFilter(report, skip) == ~report.is_valid /\ ~skip

(***************************************************************************)
(* IsnadAnalyzer.                                                          *)
(***************************************************************************)
\* Rows analysed between two garbage collections.
chunk_size == 100

\* IsnadAnalyzer(trans_df, names_df, metadata_df)
IsnadAnalyzer(trans, names, metadata) ==
    [trans_df |-> trans,
     names_df |-> names,
     metadata_df |-> metadata,
     mixed_mode_cells |-> <<>>,
     cells_with_value_count |-> 0,
     cell_analyses |-> EmptyDict,
     trans_columns |->
        IF IsEmptyDf(trans) THEN <<>>
        ELSE SelectSeq(trans.columns, IsSlotColumn),
     unique_terms |-> {}]

\* analyze_all_cells: the body of "for col in self.trans_columns".
AnalyzeCell(an, path_id, col, cell_value) ==
    IF NotNa(cell_value) /\ cell_value # Str(<<>>)
    THEN LET cell_id == CellId(path_id, col)
             analyzer == CellAnalyzer(cell_value, cell_id)
             counted == [an EXCEPT !.cells_with_value_count = @ + 1]
         IN  IF ~analyzer.is_empty
             THEN [counted EXCEPT
                     !.cell_analyses = (cell_id :> analyzer) @@ @,
                     !.mixed_mode_cells =
                         IF IsMixedMode(analyzer)
                         THEN Append(@, [path_id |-> path_id,
                                         column |-> col,
                                         value |-> cell_value])
                         ELSE @,
                     !.unique_terms =
                         IF /\ analyzer.analysis # None
                            /\ NonEmpty(analyzer.analysis.original_text)
                         THEN @ \cup {analyzer.analysis.original_text}
                         ELSE @]
             ELSE counted
    ELSE an

RECURSIVE AnalyzeColumns(_, _, _, _)
AnalyzeColumns(an, row, path_id, k) ==
    IF k > Len(an.trans_columns) THEN an
    ELSE LET col == an.trans_columns[k]
         IN  AnalyzeColumns(
                 IF col \in DOMAIN row
                 THEN AnalyzeCell(an, path_id, col, row[col]) ELSE an,
                 row, path_id, k + 1)

\* analyze_all_cells: the body of "for idx, row in chunk.iterrows()".
AnalyzeRow(an, idx) ==
    LET row == RowSeries(an.trans_df, idx + 1)
        path_id == IF "path_id" \in DOMAIN row
                   THEN row.path_id ELSE Int64(idx)
    IN  AnalyzeColumns(an, row, path_id, 1)

\* analyze_all_cells: the rows idx .. end_idx - 1 of one chunk, in row
\* order: the first half of the rows, then the second half on its result.
RECURSIVE AnalyzeRows(_, _, _)
AnalyzeRows(an, idx, end_idx) ==
    IF idx >= end_idx THEN an
    ELSE IF end_idx = idx + 1 THEN AnalyzeRow(an, idx)
    ELSE LET middle == idx + ((end_idx - idx) \div 2)
             first == AnalyzeRows(an, idx, middle)
         IN  \* the first half is analysed before the second is begun (the
             \* count of cells never goes down)
             IF first.cells_with_value_count >= an.cells_with_value_count
             THEN AnalyzeRows(first, middle, end_idx)
             ELSE first

\* analyze_all_cells: the chunks from start_idx on.
RECURSIVE AnalyzeChunks(_, _)
AnalyzeChunks(an, start_idx) ==
    IF start_idx >= Len(an.trans_df.rows) THEN an
    ELSE LET bound == start_idx + chunk_size
             end_idx == IF bound < Len(an.trans_df.rows)
                        THEN bound ELSE Len(an.trans_df.rows)
         IN  AnalyzeChunks(AnalyzeRows(an, start_idx, end_idx), bound)

analyze_all_cells(an) ==
    IF IsEmptyDf(an.trans_df) THEN an ELSE AnalyzeChunks(an, 0)

(***************************************************************************)
(* process_isnad_network: the path-data dict and its path records.         *)
(***************************************************************************)
\* The histogram of primary classifications over the analysed cells.
Classifications(an) ==
    LET analysed == {c \in DOMAIN an.cell_analyses :
                        an.cell_analyses[c].analysis # None}
        ClassOf(c) == an.cell_analyses[c].analysis.primary_classification
    IN  [cl \in {ClassOf(c) : c \in analysed} |->
            Cardinality({c \in analysed : ClassOf(c) = cl})]

\* isnad_data before the loop over the names rows.
NewIsnadData(an, now) ==
    [metadata |->
        [generated |-> Timestamp(now),
         rows_analyzed |-> Len(an.trans_df.rows),
         transmission_columns |-> an.trans_columns,
         mixed_mode_cells |-> Len(an.mixed_mode_cells),
         cells_with_value |-> an.cells_with_value_count,
         unique_terms |-> Cardinality(an.unique_terms)],
     term_statistics |-> [by_classification |-> Classifications(an)],
     mixed_mode_cells |-> an.mixed_mode_cells,
     paths |-> <<>>]

\* The metadata of the first metadata row with this path_id.
RowMetadata(metadata, path_id) ==
    IF metadata # None /\ ~IsEmptyDf(metadata)
           /\ HasColumn(metadata, "path_id")
    THEN LET meta_row == SelectSeq(metadata.rows,
                             LAMBDA row : NumEq(row.path_id, path_id))
         IN  IF meta_row # <<>>
             THEN [col \in {c \in Range(metadata.columns) :
                               c # "path_id" /\ NotNa(meta_row[1][c])} |->
                      meta_row[1][col].str]
             ELSE EmptyDict
    ELSE EmptyDict

\* Every slot column of the row is kept, a cell without a name as "".
RowNamesWithEmpty(row) ==
    [col \in {c \in DOMAIN row : IsSlotColumn(c)} |->
        IF NotNa(row[col]) THEN row[col].str ELSE ""]

\* The names of a names row: the slot columns whose cell holds a name.
RowNames(row) ==
    [col \in {c \in DOMAIN row :
                 IsSlotColumn(c) /\ NotNa(row[c]) /\ row[c] # Str("")} |->
        row[col].str]

\* The term records of the cells analysed under this path_id.
RowTermAnalysis(an, path_id) ==
    IF ~IsEmptyDf(an.trans_df) /\ HasColumn(an.trans_df, "path_id")
    THEN LET trans_row == SelectSeq(an.trans_df.rows,
                              LAMBDA row : NumEq(row.path_id, path_id))
         IN  IF trans_row # <<>>
             THEN [col \in {c \in Range(an.trans_columns) :
                               CellId(path_id, c)
                                   \in DOMAIN an.cell_analyses} |->
                      CellToDict(an.cell_analyses[CellId(path_id, col)])]
             ELSE EmptyDict
    ELSE EmptyDict

\* The path record of the names row at index idx.
PathRecord(names, metadata, an, idx) ==
    LET row == RowSeries(names, idx + 1)
        path_id == IF "path_id" \in DOMAIN row
                   THEN row.path_id ELSE Int64(idx)
        isnad_id == IF "isnad_id" \in DOMAIN row
                    THEN row.isnad_id ELSE Str("")
    IN  [path_id |-> path_id,
         isnad_id |-> isnad_id,
         names |-> RowNames(row),
         term_analysis |-> RowTermAnalysis(an, path_id),
         metadata |-> RowMetadata(metadata, path_id)]

(***************************************************************************)
(* Inputs of process_isnad_network: the content of the CSV files.          *)
(***************************************************************************)
NameRows ==
    { [path_id |-> Int64(1), isnad_id |-> Str("jb_001"),
       t1 |-> Str("A"), t2 |-> Str("B"), t3 |-> NaN],
      \* a row that returns to its first name
      [path_id |-> Int64(2), isnad_id |-> Str("jb_002"),
       t1 |-> Str("B"), t2 |-> Str("A"), t3 |-> Str("B")],
      \* a row without any name
      [path_id |-> Int64(3), isnad_id |-> NaN,
       t1 |-> NaN, t2 |-> NaN, t3 |-> NaN],
      \* a row without identifier
      [path_id |-> NaN, isnad_id |-> Str("jb_004"),
       t1 |-> Str("A"), t2 |-> NaN, t3 |-> NaN] }

NameColumns ==
    { <<"path_id", "isnad_id", "t1", "t2", "t3">>, <<"t1", "t2", "t3">> }

NameFiles ==
    { Table(cols, rows) :
        cols \in NameColumns,
        rows \in UNION { [1..n -> NameRows] : n \in 0..MaxRows } }

TransRows ==
    { [path_id |-> Int64(1), t1 |-> Str(Haddathana), t2 |-> NaN],
      \* a mixed cell and a blank cell
      [path_id |-> Int64(2),
       t1 |-> Str(Qaraatu \o <<ArabicComma, Space>> \o Haddathana),
       t2 |-> Str(<<Space>>)],
      \* a row without identifier: a delimiter-only cell and another word
      [path_id |-> NaN, t1 |-> Str(<<Comma>>), t2 |-> Str(Qala)] }

TransColumns == { <<"path_id", "t1", "t2">>, <<"t1", "t2">> }

TransFiles ==
    { Table(cols, rows) :
        cols \in TransColumns,
        rows \in UNION { [1..n -> TransRows] : n \in 0..MaxTransRows } }

\* No metadata file, one with the identifier column, one without.
MetadataFiles ==
    { None,
      Table(<<"path_id", "Reader", "_mode">>,
            << [path_id |-> Int64(1), Reader |-> Str("Nafi"),
                _mode |-> NaN] >>),
      Table(<<"Reader">>, << [Reader |-> Str("Nafi")] >>) }

(***************************************************************************)
(* The network file.  Written text is the sequence of its pieces:          *)
(* punctuation, white space, the keys of the document and the text         *)
(* json.dumps makes of one value.                                          *)
(***************************************************************************)
Punct(c) == [p |-> c]

White(c) == [ws |-> c]

Key(name) == [key |-> name]

\* json.dumps(value, ensure_ascii=False)
Dumps(value) == [json |-> value]

\* The keys of the network's arrays in the order they are written.
ArrayKeys == <<"nodes", "edges", "paths">>

\* One write per element with a comma after each, the last one too.
RECURSIVE StreamArrayCommaAlways(_, _)
StreamArrayCommaAlways(items, k) ==
    IF k >= Len(items) THEN <<>>
    ELSE <<White("    "), Dumps(items[k + 1]), Punct(","), White("\n")>>
             \o StreamArrayCommaAlways(items, k + 1)

\* "for i, item in enumerate(items)": one write per element from index k
\* on, with a comma after each but the last.
RECURSIVE StreamArray(_, _)
StreamArray(items, k) ==
    IF k >= Len(items) THEN <<>>
    ELSE (IF k < Len(items) - 1
          THEN <<White("    "), Dumps(items[k + 1]), Punct(","),
                 White("\n")>>
          ELSE <<White("    "), Dumps(items[k + 1]), White("\n")>>)
             \o StreamArray(items, k + 1)

\* The text of the incremental writer.
StreamDump(net) ==
    <<Punct("{"), White("\n")>>
    \o <<White("  "), Key("metadata"), Punct(":"), White(" "),
         Dumps(net.metadata), Punct(","), White("\n")>>
    \o <<White("  "), Key("nodes"), Punct(":"), White(" "), Punct("["),
         White("\n")>>
    \o StreamArray(net.nodes, 0)
    \o <<White("  "), Punct("]"), Punct(","), White("\n")>>
    \o <<White("  "), Key("edges"), Punct(":"), White(" "), Punct("["),
         White("\n")>>
    \o StreamArray(net.edges, 0)
    \o <<White("  "), Punct("]"), Punct(","), White("\n")>>
    \o <<White("  "), Key("paths"), Punct(":"), White(" "), Punct("["),
         White("\n")>>
    \o StreamArray(net.paths, 0)
    \o <<White("  "), Punct("]"), White("\n")>>
    \o <<Punct("}")>>

\* json.dump of a list: ", " between the elements.
RECURSIVE DumpArray(_, _)
DumpArray(items, k) ==
    IF k >= Len(items) THEN <<>>
    ELSE (IF k > 0 THEN <<Punct(","), White(" ")>> ELSE <<>>)
             \o <<Dumps(items[k + 1])>>
             \o DumpArray(items, k + 1)

\* json.dump(network, f, ensure_ascii=False)
JsonDump(net) ==
    <<Punct("{"), Key("metadata"), Punct(":"), White(" "),
      Dumps(net.metadata)>>
    \o <<Punct(","), White(" "), Key("nodes"), Punct(":"), White(" "),
         Punct("[")>>
    \o DumpArray(net.nodes, 0)
    \o <<Punct("]"), Punct(","), White(" "), Key("edges"), Punct(":"),
         White(" "), Punct("[")>>
    \o DumpArray(net.edges, 0)
    \o <<Punct("]"), Punct(","), White(" "), Key("paths"), Punct(":"),
         White(" "), Punct("[")>>
    \o DumpArray(net.paths, 0)
    \o <<Punct("]"), Punct("}")>>

(***************************************************************************)
(* State.                                                                  *)
(***************************************************************************)
\* One call of process_isnad_network(trans_file, names_file,
\* metadata_file, output_dir, skip_filtering).
VARIABLES
    ppc,            \* position in process_isnad_network; "direct" when
                    \* generate_network_data is called by someone else
    files,          \* content of the input files
    skip_filtering, \* the argument
    trans_df,       \* the tables, None before they are read
    names_df,
    metadata_df,
    checked,        \* is_valid, mismatch_details and filtered_count
    analyzer,       \* the IsnadAnalyzer
    row_idx,        \* index of the names row being processed (0-based)
    isnad_file,     \* what isnad_network_data.json holds
    result          \* the value returned, None until the call returns

\* One call of generate_network_data(isnad_data, output_file).
VARIABLES
    isnad_data,     \* the argument
    pc,             \* position in generate_network_data
    network,        \* the dict under construction / returned
    node_dict,      \* name -> node_id
    unique_nodes,   \* set of names
    unique_edges,   \* set of (source, target, type)
    path_idx,       \* index of the path being processed (0-based)
    i,              \* index into t_columns (0-based)
    path_entry,     \* summary of the path being processed
    file,           \* what output_file holds
    returned,       \* the value returned, None until the call returns
    first           \* the value an earlier call on isnad_data returned

\* One call of CellAnalyzer(cell_value, cell_id), and one call of
\* compare_chain_lengths(names_df, trans_df, output_dir).
VARIABLES
    cell_value,     \* the cell handed to CellAnalyzer
    cell_analyzer,  \* the CellAnalyzer object, None before the call
    mismatch_df,    \* what compare_chain_lengths returns, None before
    report_file     \* what chain_length_mismatches.csv holds

\* What neither process_isnad_network nor generate_network_data touches.
aside == <<cell_value, cell_analyzer, mismatch_df, report_file>>

\* Before and outside the calls of CellAnalyzer and compare_chain_lengths.
NoAside ==
    /\ cell_value = None
    /\ cell_analyzer = None
    /\ mismatch_df = None
    /\ report_file = [status |-> "untouched"]

\* What a call of generate_network_data leaves alone.
outer ==
    <<ppc, files, skip_filtering, trans_df, names_df, metadata_df, checked,
      analyzer, row_idx, isnad_file, result, first, aside>>

\* What generate_network_data works on, apart from its argument, and what
\* an earlier call returned.
assembly ==
    <<network, node_dict, unique_nodes, unique_edges, path_idx, i,
      path_entry, file, returned, first, aside>>

\* What process_isnad_network leaves to generate_network_data.
inner == <<isnad_data, pc, clock, assembly>>

vars == <<outer, inner>>

\* isnad_data.get('paths', [])
PathsOf(data) == Get(data, "paths", <<>>)

\* The network returned for isnad_data = None.
RecoveryNetwork(now) ==
    [metadata |-> [generated |-> Timestamp(now), path_count |-> 0,
                   node_count |-> 0, edge_count |-> 0,
                   source |-> "Isnad Network Generator (Error Recovery)"],
     nodes |-> <<>>, edges |-> <<>>, paths |-> <<>>]

\* The network structure a call on a dict starts with.
InitialNetwork(data, now) ==
    [metadata |-> [generated |-> Timestamp(now),
                   path_count |-> Len(PathsOf(data)),
                   source |-> "Isnad Network Generator"],
     nodes |-> <<>>, edges |-> <<>>, paths |-> <<>>]

\* The counts are left out when there are no paths.
WithoutCounts(net) == net

\* node_count and edge_count set to 0 when there are no paths.
WithZeroCounts(net) ==
    [net EXCEPT !.metadata = @ @@ [node_count |-> 0, edge_count |-> 0]]

\* 'metadata' in path and path['metadata']
HasMetadata(path) ==
    "metadata" \in DOMAIN path /\ DOMAIN path["metadata"] # {}

\* The statistics count the paths where they should count nodes and edges.
WithStatisticsCountingPaths(net, paths) ==
    [net EXCEPT !.metadata =
        @ @@ [node_count |-> Len(paths), edge_count |-> Len(paths)]]

\* The summary statistics added after the loop over the paths.
WithStatistics(net, paths) ==
    LET counts == [node_count |-> Len(net.nodes),
                   edge_count |-> Len(net.edges)]
        with_metadata == {k \in 1..Len(paths) : HasMetadata(paths[k])}
    IN  [net EXCEPT !.metadata =
            @ @@ counts
              @@ (IF with_metadata # {}
                     THEN [paths_with_metadata |-> Cardinality(with_metadata)]
                     ELSE EmptyDict)]

\* The path being processed.
CurrentPath == PathsOf(isnad_data)[path_idx + 1]

\* The assembler's state as one value, and its assignment.
AssemblerState ==
    [network |-> network, node_dict |-> node_dict,
     unique_nodes |-> unique_nodes, unique_edges |-> unique_edges,
     path_entry |-> path_entry]

SetAssemblerState(s) ==
    /\ network' = s.network
    /\ node_dict' = s.node_dict
    /\ unique_nodes' = s.unique_nodes
    /\ unique_edges' = s.unique_edges
    /\ path_entry' = s.path_entry

Init ==
    /\ NoAside
    /\ ppc = "direct"
    /\ files = None
    /\ skip_filtering = FALSE
    /\ trans_df = None
    /\ names_df = None
    /\ metadata_df = None
    /\ checked = None
    /\ analyzer = None
    /\ row_idx = 0
    /\ isnad_file = [status |-> "untouched"]
    /\ result = None
    /\ isnad_data \in IsnadInputs
    /\ pc = "call"
    /\ clock = 0
    /\ network = EmptyDict
    /\ node_dict = EmptyDict
    /\ unique_nodes = {}
    /\ unique_edges = {}
    /\ path_idx = 0
    /\ i = 0
    /\ path_entry = EmptyDict
    /\ file = [status |-> "untouched"]
    /\ returned = None
    /\ first = None

(***************************************************************************)
(* generate_network_data, step by step.                                    *)
(***************************************************************************)
\* isnad_data is None: the recovery network.
ValidateNone ==
    /\ pc = "call"
    /\ isnad_data = None
    /\ network' = RecoveryNetwork(clock)
    /\ pc' = "write_minimal"
    /\ UNCHANGED <<outer, isnad_data, clock, node_dict, unique_nodes, unique_edges,
                   path_idx, i, path_entry, file, returned>>

\* isnad_data has no paths: the initial network with zero counts.
ValidateNoPaths ==
    /\ pc = "call"
    /\ isnad_data # None
    /\ PathsOf(isnad_data) = <<>>
    /\ network' = WithZeroCounts(InitialNetwork(isnad_data, clock))
    /\ pc' = "write_minimal"
    /\ UNCHANGED <<outer, isnad_data, clock, node_dict, unique_nodes, unique_edges,
                   path_idx, i, path_entry, file, returned>>

\* isnad_data has paths: the registries are set up and the loop is entered.
ValidatePaths ==
    /\ pc = "call"
    /\ isnad_data # None
    /\ PathsOf(isnad_data) # <<>>
    /\ network' = InitialNetwork(isnad_data, clock)
    /\ node_dict' = EmptyDict
    /\ unique_nodes' = {}
    /\ unique_edges' = {}
    /\ path_idx' = 0
    /\ pc' = "paths"
    /\ UNCHANGED <<outer, isnad_data, clock, i, path_entry, file, returned>>

\* The head of one iteration of "for path_idx, path in enumerate(paths)".
BeginPath ==
    /\ pc = "paths"
    /\ path_idx < Len(PathsOf(isnad_data))
    /\ path_entry' = NewPathEntry(CurrentPath, path_idx)
    /\ i' = 0
    /\ pc' = "slots"
    /\ UNCHANGED <<outer, isnad_data, clock, network, node_dict, unique_nodes,
                   unique_edges, path_idx, file, returned>>

\* One iteration of "for i in range(len(t_columns))".
Slot ==
    /\ pc = "slots"
    /\ i < Len(TColumns(NamesOf(CurrentPath)))
    /\ SetAssemblerState(ProcessSlot(AssemblerState, CurrentPath, path_idx, i))
    /\ i' = i + 1
    /\ UNCHANGED <<outer, isnad_data, pc, clock, path_idx, file, returned>>

\* The end of the iteration for one path.
EndPath ==
    /\ pc = "slots"
    /\ i = Len(TColumns(NamesOf(CurrentPath)))
    /\ network' = AppendPathEntry(network, path_entry)
    /\ path_idx' = path_idx + 1
    /\ pc' = "paths"
    /\ UNCHANGED <<outer, isnad_data, clock, node_dict, unique_nodes, unique_edges,
                   i, path_entry, file, returned>>

\* After the last path: the summary statistics.
Summarize ==
    /\ pc = "paths"
    /\ path_idx = Len(PathsOf(isnad_data))
    /\ network' = WithStatistics(network, PathsOf(isnad_data))
    /\ pc' = "write"
    /\ UNCHANGED <<outer, isnad_data, clock, node_dict, unique_nodes, unique_edges,
                   path_idx, i, path_entry, file, returned>>

\* The network is returned without its nodes.
ReturnWithoutNodes ==
    /\ returned' = [network EXCEPT !.nodes = <<>>]
    /\ pc' = "done"

\* "return network"
Return ==
    /\ returned' = network
    /\ pc' = "done"

\* No output file is given: nothing is written.
NoOutputFile ==
    /\ ppc = "direct"
    /\ pc \in {"write_minimal", "write"}
    /\ Return
    /\ UNCHANGED <<outer, isnad_data, clock, network, node_dict, unique_nodes,
                   unique_edges, path_idx, i, path_entry, file>>

\* The minimal network is written with one json.dump.
WriteMinimal ==
    /\ pc = "write_minimal"
    /\ file' = [status |-> "dumped", content |-> JsonDump(network)]
    /\ Return
    /\ UNCHANGED <<outer, isnad_data, clock, network, node_dict, unique_nodes,
                   unique_edges, path_idx, i, path_entry>>

\* Writing the minimal network raises: the exception is caught and printed.
WriteMinimalFails ==
    /\ pc = "write_minimal"
    /\ file' \in {[status |-> "untouched"], [status |-> "partial"]}
    /\ Return
    /\ UNCHANGED <<outer, isnad_data, clock, network, node_dict, unique_nodes,
                   unique_edges, path_idx, i, path_entry>>

\* The incremental write succeeds.
WriteStream ==
    /\ pc = "write"
    /\ file' = [status |-> "streamed", content |-> StreamDump(network)]
    /\ Return
    /\ UNCHANGED <<outer, isnad_data, clock, network, node_dict, unique_nodes,
                   unique_edges, path_idx, i, path_entry>>

\* The incremental write raises: the simpler method is tried.
WriteStreamFails ==
    /\ pc = "write"
    /\ file' \in {[status |-> "untouched"], [status |-> "partial"]}
    /\ pc' = "fallback"
    /\ UNCHANGED <<outer, isnad_data, clock, network, node_dict, unique_nodes,
                   unique_edges, path_idx, i, path_entry, returned>>

\* The whole-document json.dump succeeds.
WriteFallback ==
    /\ pc = "fallback"
    /\ file' = [status |-> "dumped", content |-> JsonDump(network)]
    /\ Return
    /\ UNCHANGED <<outer, isnad_data, clock, network, node_dict, unique_nodes,
                   unique_edges, path_idx, i, path_entry>>

\* The whole-document json.dump raises too: the failure is printed.
WriteFallbackFails ==
    /\ pc = "fallback"
    /\ file' \in {file, [status |-> "partial"]}
    /\ Return
    /\ UNCHANGED <<outer, isnad_data, clock, network, node_dict, unique_nodes,
                   unique_edges, path_idx, i, path_entry>>

Next ==
    \/ ValidateNone
    \/ ValidateNoPaths
    \/ ValidatePaths
    \/ BeginPath
    \/ Slot
    \/ EndPath
    \/ Summarize
    \/ NoOutputFile
    \/ WriteMinimal
    \/ WriteMinimalFails
    \/ WriteStream
    \/ WriteStreamFails
    \/ WriteFallback
    \/ WriteFallbackFails

Spec == Init /\ [][Next]_vars

(***************************************************************************)
(* The same isnad_data assembled a second time, as the re-projection of    *)
(* saved path data does: no output file, a later clock.                    *)
(***************************************************************************)
Rerun ==
    /\ pc = "done"
    /\ first = None
    /\ first' = returned
    /\ clock' = clock + 1
    /\ pc' = "call"
    /\ network' = EmptyDict
    /\ node_dict' = EmptyDict
    /\ unique_nodes' = {}
    /\ unique_edges' = {}
    /\ path_idx' = 0
    /\ i' = 0
    /\ path_entry' = EmptyDict
    /\ returned' = None
    /\ UNCHANGED <<ppc, files, skip_filtering, trans_df, names_df,
                   metadata_df, checked, analyzer, row_idx, isnad_file,
                   result, isnad_data, file, aside>>

NextTwice ==
    \/ ValidateNone
    \/ ValidateNoPaths
    \/ ValidatePaths
    \/ BeginPath
    \/ Slot
    \/ EndPath
    \/ Summarize
    \/ NoOutputFile
    \/ Rerun

SpecTwice == Init /\ [][NextTwice]_vars

(***************************************************************************)
(* process_isnad_network, step by step.                                    *)
(***************************************************************************)
InputFiles ==
    [trans_file : TransFiles, names_file : NameFiles,
     metadata_file : MetadataFiles]

InitPipeline ==
    /\ NoAside
    /\ files \in InputFiles
    /\ skip_filtering \in BOOLEAN
    /\ ppc = "start"
    /\ trans_df = None
    /\ names_df = None
    /\ metadata_df = None
    /\ checked = None
    /\ analyzer = None
    /\ row_idx = 0
    /\ isnad_file = [status |-> "untouched"]
    /\ result = None
    /\ isnad_data = None
    /\ pc = "idle"
    /\ clock = 0
    /\ network = EmptyDict
    /\ node_dict = EmptyDict
    /\ unique_nodes = {}
    /\ unique_edges = {}
    /\ path_idx = 0
    /\ i = 0
    /\ path_entry = EmptyDict
    /\ file = [status |-> "untouched"]
    /\ returned = None
    /\ first = None

\* The output directory exists or is created.
MakeDirs ==
    /\ ppc = "start"
    /\ ppc' = "read"
    /\ UNCHANGED <<files, skip_filtering, trans_df, names_df, metadata_df,
                   checked, analyzer, row_idx, isnad_file, result, inner>>

\* os.makedirs raises: nothing catches it.
MakeDirsFails ==
    /\ ppc = "start"
    /\ ppc' = "raised"
    /\ UNCHANGED <<files, skip_filtering, trans_df, names_df, metadata_df,
                   checked, analyzer, row_idx, isnad_file, result, inner>>

\* The three read_csv calls succeed.
ReadInputs ==
    /\ ppc = "read"
    /\ trans_df' = ReadCsv(files.trans_file)
    /\ names_df' = ReadCsv(files.names_file)
    /\ metadata_df' = IF files.metadata_file # None
                      THEN ReadCsv(files.metadata_file) ELSE None
    /\ ppc' = "check"
    /\ UNCHANGED <<files, skip_filtering, checked, analyzer, row_idx,
                   isnad_file, result, inner>>

\* One of the read_csv calls raises: the error result is returned.
ReadInputsFails ==
    /\ ppc = "read"
    /\ result' = [status |-> "error",
                  error |-> "Failed to read input files"]
    /\ ppc' = "returned"
    /\ UNCHANGED <<files, skip_filtering, trans_df, names_df, metadata_df,
                   checked, analyzer, row_idx, isnad_file, inner>>

\* check_dimensions(names_df, trans_df, metadata_df)
CheckDimensions ==
    /\ ppc = "check"
    /\ checked' = check_dimensions(names_df, trans_df, metadata_df)
    /\ ppc' = "checked"
    /\ UNCHANGED <<files, skip_filtering, trans_df, names_df, metadata_df,
                   analyzer, row_idx, isnad_file, result, inner>>

\* filter_invalid_records replaces the three tables.
FilterRecords ==
    /\ ppc = "checked"
    /\ ShouldFilter(checked, skip_filtering)
    /\ LET filtered == filter_invalid_records(names_df, trans_df,
                                              metadata_df)
       IN  /\ names_df' = filtered.names_df
           /\ trans_df' = filtered.trans_df
           /\ metadata_df' = filtered.metadata_df
           /\ checked' = checked @@
                  [filtered_count |-> filtered.filtered_count]
    /\ ppc' = "analyze"
    /\ UNCHANGED <<files, skip_filtering, analyzer, row_idx, isnad_file,
                   result, inner>>

\* The check passed or filtering is skipped: the tables go on as read.
KeepRecords ==
    /\ ppc = "checked"
    /\ ~ShouldFilter(checked, skip_filtering)
    /\ ppc' = "analyze"
    /\ UNCHANGED <<files, skip_filtering, trans_df, names_df, metadata_df,
                   checked, analyzer, row_idx, isnad_file, result, inner>>

\* filter_invalid_records when the check fails and filtering is not
\* skipped.
CheckAndFilter ==
    \/ FilterRecords
    \/ KeepRecords

\* The analyzer is built and analyses every cell.
Analyze ==
    /\ ppc = "analyze"
    /\ analyzer' =
           analyze_all_cells(IsnadAnalyzer(trans_df, names_df, metadata_df))
    /\ ppc' = "describe"
    /\ UNCHANGED <<files, skip_filtering, trans_df, names_df, metadata_df,
                   checked, row_idx, isnad_file, result, inner>>

\* isnad_data is created, with the classification histogram.
Describe ==
    /\ ppc = "describe"
    /\ isnad_data' = NewIsnadData(analyzer, clock)
    /\ row_idx' = 0
    /\ ppc' = "build"
    /\ UNCHANGED <<files, skip_filtering, trans_df, names_df, metadata_df,
                   checked, analyzer, isnad_file, result, clock, pc,
                   assembly>>

\* One iteration of "for idx, row in names_df.iterrows()".
BuildPath ==
    /\ ppc = "build"
    /\ row_idx < Len(names_df.rows)
    /\ isnad_data' =
           [isnad_data EXCEPT !.paths =
               Append(@, PathRecord(names_df, metadata_df, analyzer,
                                    row_idx))]
    /\ row_idx' = row_idx + 1
    /\ UNCHANGED <<ppc, files, skip_filtering, trans_df, names_df,
                   metadata_df, checked, analyzer, isnad_file, result,
                   clock, pc, assembly>>

\* isnad_data is written to isnad_network_data.json.
SaveIsnadData ==
    /\ ppc = "build"
    /\ row_idx = Len(names_df.rows)
    /\ isnad_file' = [status |-> "saved", content |-> isnad_data]
    /\ ppc' = "generate"
    /\ UNCHANGED <<files, skip_filtering, trans_df, names_df, metadata_df,
                   checked, analyzer, row_idx, result, inner>>

\* Writing isnad_data raises: the error result is returned.
SaveIsnadDataFails ==
    /\ ppc = "build"
    /\ row_idx = Len(names_df.rows)
    /\ isnad_file' \in {[status |-> "untouched"], [status |-> "partial"]}
    /\ result' = [status |-> "error",
                  error |-> "Failed to write isnad data"]
    /\ ppc' = "returned"
    /\ UNCHANGED <<files, skip_filtering, trans_df, names_df, metadata_df,
                   checked, analyzer, row_idx, inner>>

\* generate_network_data(isnad_data, network_output_file) is called.
Generate ==
    /\ ppc = "generate"
    /\ pc' = "call"
    /\ ppc' = "generating"
    /\ UNCHANGED <<files, skip_filtering, trans_df, names_df, metadata_df,
                   checked, analyzer, row_idx, isnad_file, result,
                   isnad_data, clock, assembly>>

\* The call has returned: the success result is returned.
ReturnResult ==
    /\ ppc = "generating"
    /\ pc = "done"
    /\ result' =
           [status |-> "success",
            output_files |-> [isnad_data |-> "isnad_network_data.json",
                              network_graph |-> "network_graph_data.json"],
            records_processed |-> Len(names_df.rows),
            unique_terms |-> Cardinality(analyzer.unique_terms),
            node_count |-> returned.metadata.node_count,
            edge_count |-> returned.metadata.edge_count]
    /\ ppc' = "returned"
    /\ UNCHANGED <<files, skip_filtering, trans_df, names_df, metadata_df,
                   checked, analyzer, row_idx, isnad_file, inner>>

NextPipeline ==
    \/ MakeDirs
    \/ MakeDirsFails
    \/ ReadInputs
    \/ ReadInputsFails
    \/ CheckDimensions
    \/ CheckAndFilter
    \/ Analyze
    \/ Describe
    \/ BuildPath
    \/ SaveIsnadData
    \/ SaveIsnadDataFails
    \/ Generate
    \/ ValidateNoPaths
    \/ ValidatePaths
    \/ BeginPath
    \/ Slot
    \/ EndPath
    \/ Summarize
    \/ WriteMinimal
    \/ WriteMinimalFails
    \/ WriteStream
    \/ WriteStreamFails
    \/ WriteFallback
    \/ WriteFallbackFails
    \/ ReturnResult

SpecPipeline == InitPipeline /\ [][NextPipeline]_vars

(***************************************************************************)
(* CellAnalyzer called on one annotation cell.                             *)
(***************************************************************************)
\* What an annotation text is made of: the indicator words, a word that is
\* no indicator, the two delimiters and the blank.
Pieces ==
    Range(riwayah_indicators) \cup Range(tilawah_indicators)
        \cup {Qala, <<Comma>>, <<ArabicComma>>, <<Space>>}

RECURSIVE Texts(_)
Texts(n) ==
    IF n = 0 THEN {<<>>}
    ELSE LET shorter == Texts(n - 1)
         IN  shorter \cup {t \o p : t \in shorter, p \in Pieces}

\* The cells of a transmission-terms table: null, or a str.
CellValues == {NaN} \cup {Str(t) : t \in Texts(MaxPieces)}

\* Nothing of process_isnad_network or generate_network_data is running.
NoPipeline ==
    /\ ppc = "idle"
    /\ files = None
    /\ skip_filtering = FALSE
    /\ metadata_df = None
    /\ checked = None
    /\ analyzer = None
    /\ row_idx = 0
    /\ isnad_file = [status |-> "untouched"]
    /\ result = None
    /\ isnad_data = None
    /\ pc = "idle"
    /\ clock = 0
    /\ network = EmptyDict
    /\ node_dict = EmptyDict
    /\ unique_nodes = {}
    /\ unique_edges = {}
    /\ path_idx = 0
    /\ i = 0
    /\ path_entry = EmptyDict
    /\ file = [status |-> "untouched"]
    /\ returned = None
    /\ first = None

\* The two tables process_isnad_network reads first.
tables == <<trans_df, names_df>>

\* The rest of the state of process_isnad_network and generate_network_data.
program ==
    <<ppc, files, skip_filtering, metadata_df, checked, analyzer, row_idx,
      isnad_file, result, isnad_data, pc, clock, network, node_dict,
      unique_nodes, unique_edges, path_idx, i, path_entry, file, returned,
      first>>

InitCell ==
    /\ NoPipeline
    /\ trans_df = None
    /\ names_df = None
    /\ cell_value \in CellValues
    /\ cell_analyzer = None
    /\ mismatch_df = None
    /\ report_file = [status |-> "untouched"]

\* CellAnalyzer(cell_value, cell_id): an empty cell is left unanalysed.
NewEmptyCell ==
    /\ cell_analyzer = None
    /\ IsEmptyCell(cell_value)
    /\ cell_analyzer' = CellAnalyzer(cell_value, "1_t1")
    /\ UNCHANGED <<tables, program, cell_value, mismatch_df, report_file>>

\* CellAnalyzer(cell_value, cell_id): _analyze makes the TransmissionTerm.
NewAnalysedCell ==
    /\ cell_analyzer = None
    /\ ~IsEmptyCell(cell_value)
    /\ cell_analyzer' = CellAnalyzer(cell_value, "1_t1")
    /\ UNCHANGED <<tables, program, cell_value, mismatch_df, report_file>>

NextCell ==
    \/ NewEmptyCell
    \/ NewAnalysedCell

SpecCell == InitCell /\ [][NextCell]_vars

(***************************************************************************)
(* Vocabulary of the properties.                                           *)
(***************************************************************************)
\* The loop over a non-empty path list is over.
Assembled ==
    /\ pc \in {"write", "fallback", "done"}
    /\ PathsOf(isnad_data) # <<>>

\* The network dict exists and the path loop has been entered.
Assembling == pc \in {"paths", "slots"} \/ Assembled

\* The positions k of t_columns such that slots k and k+1 are both populated.
Hops(path) ==
    LET names == NamesOf(path)
        cols == TColumns(names)
    IN  {k \in 1..(Len(cols) - 1) :
            Populated(names, cols[k]) /\ Populated(names, cols[k + 1])}

HopSource(path, k) == NamesOf(path)[TColumns(NamesOf(path))[k]]

HopTarget(path, k) == NamesOf(path)[TColumns(NamesOf(path))[k + 1]]

\* The classification of the term record attached to the source slot of
\* hop k, read off the input: "unknown" without a record.
HopClass(path, k) ==
    LET ta == TermAnalysisOf(path)
        col == TColumns(NamesOf(path))[k]
    IN  IF col \in DOMAIN ta /\ ta[col] # None
        THEN ta[col].primary_classification
        ELSE "unknown"

\* The names in the populated slots of a path.
PopulatedNames(path) ==
    {NamesOf(path)[c] : c \in {c \in DOMAIN NamesOf(path) :
                                   Populated(NamesOf(path), c)}}

\* The positions of the edges of net that go from the node named src to the
\* node named tgt with type ty.
EdgesFor(net, src, tgt, ty) ==
    {e \in 1..Len(net.edges) :
        \E a, b \in 1..Len(net.nodes) :
            /\ net.nodes[a].name = src
            /\ net.nodes[b].name = tgt
            /\ net.edges[e].source = net.nodes[a].id
            /\ net.edges[e].target = net.nodes[b].id
            /\ net.edges[e].type = ty}

\* C1: after a non-empty path list is assembled, every hop (adjacent slots,
\* both populated) of every path has an edge from the node of the earlier
\* name to the node of the later name, typed by the earlier slot's term.
C1_EveryHopHasEdge ==
    Assembled =>
        \A p \in 1..Len(PathsOf(isnad_data)) :
            LET path == PathsOf(isnad_data)[p]
            IN  \A k \in Hops(path) :
                    EdgesFor(network, HopSource(path, k), HopTarget(path, k),
                             HopClass(path, k)) # {}

\* Some slot of the path is populated.
HasPopulatedSlot(path) == PopulatedNames(path) # {}

\* The positions, in input order, of the paths with a populated slot: the
\* k-th path summary of the network is the summary of the k-th of them.
SummarisedPaths(paths) ==
    SelectSeq([k \in 1..Len(paths) |-> k],
              LAMBDA k : HasPopulatedSlot(paths[k]))

\* C2: in the returned network, the summary of a path lists, for each of
\* its hops, the id of the hop's edge, whichever path created that edge.
\* (Stated for the hops whose edge is in the network, so that a hop left
\* without any edge, the case of C1, does not decide it.)
C2_SummaryListsEveryHopEdge ==
    (pc = "done" /\ Assembled) =>
        LET paths == PathsOf(isnad_data)
            owner == SummarisedPaths(paths)
        IN  /\ Len(returned.paths) = Len(owner)
            /\ \A j \in 1..Len(owner) :
                   LET path == paths[owner[j]]
                   IN  \A k \in Hops(path) :
                           \A e \in EdgesFor(returned, HopSource(path, k),
                                             HopTarget(path, k),
                                             HopClass(path, k)) :
                               returned.edges[e].id
                                   \in Range(returned.paths[j].edges)

\* The names of the populated slots the slot loop has gone through.
ObservedNames ==
    LET paths == PathsOf(isnad_data)
        whole == UNION {PopulatedNames(paths[p]) :
                            p \in 1..(IF path_idx < Len(paths)
                                         THEN path_idx ELSE Len(paths))}
        cols == TColumns(NamesOf(CurrentPath))
    IN  IF pc = "slots"
        THEN whole \cup
                 {NamesOf(CurrentPath)[cols[k]] :
                      k \in {k \in 1..i :
                                 Populated(NamesOf(CurrentPath), cols[k])}}
        ELSE whole

\* C3: the nodes are exactly the distinct names observed in populated
\* slots, one node per name: at every point of the assembly the node names
\* are the names observed so far (a set that only grows, so no node is
\* ever removed) and there are as many nodes as names; after the assembly
\* that is every name of every path.
C3_OneNodePerObservedName ==
    /\ Assembling =>
           /\ {network.nodes[k].name : k \in 1..Len(network.nodes)}
                  = ObservedNames
           /\ Len(network.nodes) = Cardinality(ObservedNames)
    /\ Assembled =>
           ObservedNames =
               UNION {PopulatedNames(PathsOf(isnad_data)[p]) :
                          p \in 1..Len(PathsOf(isnad_data))}

\* C3's case: a name observed in more slots than it has nodes.
C3_Witness ==
    /\ Assembled
    /\ Len(network.nodes) = 2
    /\ \E p, q \in 1..Len(PathsOf(isnad_data)) :
           /\ p # q
           /\ PopulatedNames(PathsOf(isnad_data)[p])
                  \cap PopulatedNames(PathsOf(isnad_data)[q]) # {}

\* C4: no two edges share (source, target, type), at every point.
C4_EdgeTriplesDistinct ==
    Assembling =>
        \A e, f \in 1..Len(network.edges) :
            (/\ network.edges[e].source = network.edges[f].source
             /\ network.edges[e].target = network.edges[f].target
             /\ network.edges[e].type = network.edges[f].type) => e = f

\* C4's case: two hops of different paths produce the same triple, and the
\* network has an edge for it.
C4_Witness ==
    /\ Assembled
    /\ \E p, q \in 1..Len(PathsOf(isnad_data)) :
           /\ p < q
           /\ \E k \in Hops(PathsOf(isnad_data)[p]),
                 m \in Hops(PathsOf(isnad_data)[q]) :
                  LET a == PathsOf(isnad_data)[p]
                      b == PathsOf(isnad_data)[q]
                  IN  /\ HopSource(a, k) = HopSource(b, m)
                      /\ HopTarget(a, k) = HopTarget(b, m)
                      /\ HopClass(a, k) = HopClass(b, m)
                      /\ EdgesFor(network, HopSource(a, k), HopTarget(a, k),
                                  HopClass(a, k)) # {}

\* The next iteration of the slot loop is at the source slot of a hop.
AtHop ==
    /\ pc = "slots"
    /\ i < Len(TColumns(NamesOf(CurrentPath)))
    /\ (i + 1) \in Hops(CurrentPath)

\* The edges of the network that carry the triple of the hop at slot k of
\* the path being processed.
HopEdges(k) ==
    EdgesFor(network, HopSource(CurrentPath, k), HopTarget(CurrentPath, k),
             HopClass(CurrentPath, k))

\* C5: a hop whose (source, target, type) is already an edge creates no
\* edge, and no step of the assembly changes any field of an edge that
\* exists.
C5_DuplicateTripleChangesNothing ==
    /\ [][(AtHop /\ HopEdges(i + 1) # {})
             => network'.edges = network.edges]_vars
    /\ [][(Assembling /\ Assembling')
             => \A e \in 1..Len(network.edges) :
                    /\ e <= Len(network'.edges)
                    /\ network'.edges[e] = network.edges[e]]_vars

\* C5's case: the slot loop has just gone through a hop of a later path
\* whose triple was an edge already, created by a path with other metadata
\* and another path_id.
C5_Witness ==
    /\ pc = "slots"
    /\ i \in Hops(CurrentPath)
    /\ \E e \in HopEdges(i) :
           /\ network.edges[e].path_id # PathId(CurrentPath, path_idx)
           /\ network.edges[e].Reader
                  # Get(MetadataOf(CurrentPath), "Reader", "")
           /\ network.edges[e].isnad_id # IsnadId(CurrentPath)

\* C7: the k-th node has id n<k> and the k-th edge id e<k>, at every point;
\* no step changes the id or the name of a node, or the id of an edge, that
\* exists.
C7_SequentialIds ==
    /\ [](Assembling =>
            /\ \A k \in 1..Len(network.nodes) :
                   network.nodes[k].id = "n" \o ToString(k)
            /\ \A k \in 1..Len(network.edges) :
                   network.edges[k].id = "e" \o ToString(k))
    /\ [][(Assembling /\ Assembling')
             => /\ \A k \in 1..Len(network.nodes) :
                       /\ k <= Len(network'.nodes)
                       /\ network'.nodes[k].id = network.nodes[k].id
                       /\ network'.nodes[k].name = network.nodes[k].name
                /\ \A k \in 1..Len(network.edges) :
                       /\ k <= Len(network'.edges)
                       /\ network'.edges[k].id = network.edges[k].id]_vars

\* C7's case: two nodes and two edges, from two paths.
C7_Witness ==
    /\ Assembled
    /\ Len(network.nodes) >= 2
    /\ Len(network.edges) >= 2
    /\ \E e, f \in 1..Len(network.edges) :
           network.edges[e].path_id # network.edges[f].path_id

\* C8: a new edge takes type, label and terms from the term record of the
\* source slot of its hop: the record's classification, text and sub-term
\* list (an empty text or list leaves the key out); without a record the
\* type is unknown and there is no label and no terms.  Type, label and
\* terms of an edge that exists stay as they are.
C8_EdgeTermsFromSourceSlot ==
    /\ [][(pc = "slots" /\ Len(network'.edges) > Len(network.edges))
             => LET e == network'.edges[Len(network'.edges)]
                    ta == TermAnalysisOf(CurrentPath)
                    col == TColumns(NamesOf(CurrentPath))[i + 1]
                IN  IF col \in DOMAIN ta /\ ta[col] # None
                    THEN /\ e.type = ta[col].primary_classification
                         /\ Get(e, "label", <<>>) = ta[col].original_text
                         /\ Get(e, "terms", <<>>) = ta[col].terms
                    ELSE /\ e.type = "unknown"
                         /\ "label" \notin DOMAIN e
                         /\ "terms" \notin DOMAIN e]_vars
    /\ [][(Assembling /\ Assembling')
             => \A k \in 1..Len(network.edges) :
                    /\ k <= Len(network'.edges)
                    /\ network'.edges[k].type = network.edges[k].type
                    /\ Get(network'.edges[k], "label", <<>>)
                           = Get(network.edges[k], "label", <<>>)
                    /\ Get(network'.edges[k], "terms", <<>>)
                           = Get(network.edges[k], "terms", <<>>)]_vars

\* C8's case: an edge made at a hop whose source slot has the record of a
\* delimiter-only cell and whose target slot has a riwayah record, and an
\* edge made at a hop whose source slot has a tilawah record.
C8_Witness ==
    /\ Assembled
    /\ \E e, f \in 1..Len(network.edges) :
           /\ network.edges[e].type = "unknown"
           /\ Get(network.edges[e], "label", <<>>) = <<Comma>>
           /\ "terms" \notin DOMAIN network.edges[e]
           /\ network.edges[f].type = "tilawah"
           /\ Get(network.edges[f], "terms", <<>>) = <<Qaraatu>>

\* C9: a call on None, on a dict without paths or on an empty path list
\* returns a network with no nodes, edges and paths and with node_count and
\* edge_count 0, whatever happened to the output file.
C9_NoPathsGivesEmptyNetwork ==
    (pc = "done" /\ PathsOf(isnad_data) = <<>>) =>
        /\ returned # None
        /\ returned.nodes = <<>>
        /\ returned.edges = <<>>
        /\ returned.paths = <<>>
        /\ "node_count" \in DOMAIN returned.metadata
        /\ returned.metadata.node_count = 0
        /\ "edge_count" \in DOMAIN returned.metadata
        /\ returned.metadata.edge_count = 0

\* C9's case: the call on None has returned after a failed write.
C9_Witness ==
    /\ pc = "done"
    /\ isnad_data = None
    /\ file = [status |-> "partial"]
    /\ returned # None

\* A network's metadata without the generation timestamp.
Undated(metadata) ==
    [k \in DOMAIN metadata \ {"generated"} |-> metadata[k]]

EmptyNamesRow(df, k) ==
    \A c \in Range(df.columns) :
        IsSlotColumn(c) => (df.rows[k][c] = NaN \/ df.rows[k][c] = Str(""))

\* The path being processed has no populated name slot.
AtEmptyPath ==
    /\ pc \in {"paths", "slots"}
    /\ path_idx < Len(PathsOf(isnad_data))
    /\ ~HasPopulatedSlot(CurrentPath)

\* C10: a path without any populated name slot adds no node, no edge and
\* no path summary to the network, and yet the saved path-data file holds
\* one record per names row, the rows without names included; the path
\* summaries of the returned network are, in order, those of the paths
\* with at least one populated name slot.
C10_EmptyPathKeptButNotSummarised ==
    /\ [][AtEmptyPath =>
              /\ network'.nodes = network.nodes
              /\ network'.edges = network.edges
              /\ network'.paths = network.paths]_vars
    /\ [](isnad_file.status = "saved" =>
              /\ Len(isnad_file.content.paths) = Len(names_df.rows)
              /\ \A k \in 1..Len(names_df.rows) :
                     EmptyNamesRow(names_df, k) <=>
                         isnad_file.content.paths[k].names = EmptyDict)
    /\ [](pc = "done" =>
              LET paths == PathsOf(isnad_data)
                  owner == SummarisedPaths(paths)
              IN  /\ Len(returned.paths) = Len(owner)
                  /\ \A j \in 1..Len(owner) :
                         /\ returned.paths[j].path_id
                                = PathId(paths[owner[j]], owner[j] - 1)
                         /\ returned.paths[j].nodes # <<>>)

\* A finished run over a names file with a row without names and a row
\* that yields an edge: two records in the file, one summary in the graph.
C10_Witness ==
    /\ ppc = "returned"
    /\ result.status = "success"
    /\ Len(isnad_file.content.paths) = 2
    /\ \E k \in 1..2 : EmptyNamesRow(names_df, k)
    /\ Len(returned.paths) = 1
    /\ Len(returned.edges) > 0

(***************************************************************************)
(* compare_chain_lengths(names_df, trans_df, output_dir).                  *)
(***************************************************************************)
\* pd.DataFrame()
EmptyFrame == [columns |-> <<>>, rows |-> <<>>]

\* df['path_id'].unique(): the values in the order they first appear, the
\* null value among them.
RECURSIVE Unique(_)
Unique(cells) ==
    IF cells = <<>> THEN <<>>
    ELSE LET front == Unique(SubSeq(cells, 1, Len(cells) - 1))
             last == cells[Len(cells)]
         IN  IF last \in Range(front) THEN front ELSE Append(front, last)

UniquePathIds(df) == Unique([k \in 1..Len(df.rows) |-> df.rows[k].path_id])

\* df[df['path_id'] == path_id]
MatchingRows(df, path_id) ==
    SelectSeq(df.rows, LAMBDA row : NumEq(row.path_id, path_id))

\* The sorted slot columns of a table.
SortedSlotColumns(df) ==
    SelectSeq(SlotCols, LAMBDA col : HasColumn(df, col) /\ IsSlotColumn(col))

\* sum(1 for col in t_cols if pd.notna(row[col]) and row[col] != ""), on
\* a names row and on a terms row.
NamesCount(row, t_cols) ==
    Cardinality({col \in Range(t_cols) :
                    NotNa(row[col]) /\ row[col] # Str("")})

TransCount(row, t_cols) ==
    Cardinality({col \in Range(t_cols) :
                    NotNa(row[col]) /\ row[col] # Str(<<>>)})

\* trans_count - names_count
DifferenceReversed(names_count, trans_count) == trans_count - names_count

\* names_count - trans_count
Difference(names_count, trans_count) == names_count - trans_count

\* The body of "for path_id in unique_path_ids", from the k-th identifier on.
RECURSIVE Mismatches(_, _, _)
Mismatches(names, trans, k) ==
    LET unique_path_ids == UniquePathIds(names) IN
    IF k > Len(unique_path_ids) THEN <<>>
    ELSE LET path_id == unique_path_ids[k]
             names_rows == MatchingRows(names, path_id)
             trans_rows == MatchingRows(trans, path_id)
             rest == Mismatches(names, trans, k + 1)
         IN  IF names_rows = <<>> \/ trans_rows = <<>> THEN rest
             ELSE LET names_count ==
                          NamesCount(names_rows[1], SortedSlotColumns(names))
                      trans_count ==
                          TransCount(trans_rows[1], SortedSlotColumns(trans))
                  IN  IF names_count # trans_count
                      THEN <<[path_id |-> path_id,
                              names_length |-> names_count,
                              trans_length |-> trans_count,
                              difference |->
                                  Difference(names_count, trans_count)]>>
                               \o rest
                      ELSE rest

\* "if True": the report is written whatever the list holds.
ReportAlways(mismatches) == TRUE

\* "if mismatches"
ReportNeeded(mismatches) == mismatches # <<>>

\* The arguments: each table is None or a table read from a file.
CompareNames == {None} \cup {ReadCsv(content) : content \in NameFiles}

\* The rows of the terms table: those of TransRows and one that has as
\* many annotations as the names row of identifier 1 has names.
CompareTransRows ==
    TransRows \cup
        { [path_id |-> Int64(1), t1 |-> Str(Haddathana),
           t2 |-> Str(Qaraatu)] }

CompareTrans ==
    {None} \cup
        { ReadCsv(Table(cols, rows)) :
            cols \in TransColumns,
            rows \in UNION { [1..n -> CompareTransRows] :
                               n \in 0..MaxTransRows } }

InitCompare ==
    /\ NoPipeline
    /\ names_df \in CompareNames
    /\ trans_df \in CompareTrans
    /\ cell_value = None
    /\ cell_analyzer = None
    /\ mismatch_df = None
    /\ report_file = [status |-> "untouched"]

\* One of the tables is None: an empty frame is returned.
CompareNone ==
    /\ mismatch_df = None
    /\ names_df = None \/ trans_df = None
    /\ mismatch_df' = EmptyFrame
    /\ UNCHANGED <<tables, program, cell_value, cell_analyzer, report_file>>

\* A table lacks the path_id column: an empty frame is returned.
CompareWithoutId ==
    /\ mismatch_df = None
    /\ names_df # None /\ trans_df # None
    /\ ~HasColumn(names_df, "path_id") \/ ~HasColumn(trans_df, "path_id")
    /\ mismatch_df' = EmptyFrame
    /\ UNCHANGED <<tables, program, cell_value, cell_analyzer, report_file>>

\* The tables can be compared.
Comparable ==
    /\ names_df # None /\ trans_df # None
    /\ HasColumn(names_df, "path_id") /\ HasColumn(trans_df, "path_id")

\* The columns of the mismatch frame.
MismatchColumns == <<"path_id", "names_length", "trans_length", "difference">>

\* No mismatch: the frame without rows is returned, no file is written.
CompareClean ==
    /\ mismatch_df = None
    /\ Comparable
    /\ ~ReportNeeded(Mismatches(names_df, trans_df, 1))
    /\ mismatch_df' =
           [columns |-> MismatchColumns,
            rows |-> Mismatches(names_df, trans_df, 1)]
    /\ UNCHANGED <<tables, program, cell_value, cell_analyzer, report_file>>

\* Mismatches: chain_length_mismatches.csv is written and the frame
\* returned.
CompareReport ==
    /\ mismatch_df = None
    /\ Comparable
    /\ ReportNeeded(Mismatches(names_df, trans_df, 1))
    /\ mismatch_df' =
           [columns |-> MismatchColumns,
            rows |-> Mismatches(names_df, trans_df, 1)]
    /\ report_file' = [status |-> "saved", content |-> mismatch_df']
    /\ UNCHANGED <<tables, program, cell_value, cell_analyzer>>

\* to_csv raises: the exception leaves compare_chain_lengths.
CompareReportFails ==
    /\ mismatch_df = None
    /\ Comparable
    /\ ReportNeeded(Mismatches(names_df, trans_df, 1))
    /\ mismatch_df' = [raised |-> "OSError"]
    /\ report_file' = [status |-> "failed"]
    /\ UNCHANGED <<tables, program, cell_value, cell_analyzer>>

NextCompare ==
    \/ CompareNone
    \/ CompareWithoutId
    \/ CompareClean
    \/ CompareReport
    \/ CompareReportFails

SpecCompare == InitCompare /\ [][NextCompare]_vars

(***************************************************************************)
(* analyze_all_cells, batch by batch, on tables of many rows.              *)
(***************************************************************************)
\* The cells the rows of a long table hold in turn.
BatchCells ==
    <<Str(Haddathana), Str(Qaraatu \o <<Comma>> \o Haddathana), NaN,
      Str(Qala)>>

\* The k-th row of a long table: its cells go round BatchCells.
BatchRow(k, shift) ==
    [path_id |-> Int64(k),
     t1 |-> BatchCells[((k + shift) % Len(BatchCells)) + 1],
     t2 |-> BatchCells[((2 * k + shift) % Len(BatchCells)) + 1]]

\* No row, one row, one row short of a batch, and full batches with and
\* without a row beyond them.
RowCounts ==
    {0, 1, chunk_size - 1}
        \cup {b * chunk_size + extra : b \in 1..MaxBatches, extra \in {0, 1}}

BatchTables ==
    { ReadCsv(Table(cols, [k \in 1..n |-> BatchRow(k, shift)])) :
        cols \in TransColumns, n \in RowCounts,
        shift \in 0..(Len(BatchCells) - 1) }

InitBatch ==
    /\ NoPipeline
    /\ NoAside
    /\ names_df = None
    /\ trans_df \in BatchTables

\* min(start_idx + chunk_size, length) less one: the last row of a full
\* batch is left out.
ChunkEndShort(start_idx, length) ==
    IF start_idx + chunk_size <= length
    THEN start_idx + chunk_size - 1 ELSE length

\* end_idx = min(start_idx + chunk_size, len(self.trans_df))
ChunkEnd(start_idx, length) ==
    IF start_idx + chunk_size < length
    THEN start_idx + chunk_size ELSE length

\* IsnadAnalyzer(trans_df, names_df, metadata_df)
NewAnalyzer ==
    /\ ppc = "idle"
    /\ analyzer = None
    /\ analyzer' = IsnadAnalyzer(trans_df, names_df, metadata_df)
    /\ ppc' = "analyze_all_cells"
    /\ UNCHANGED <<files, skip_filtering, trans_df, names_df, metadata_df,
                   checked, row_idx, isnad_file, result, inner>>

\* analyze_all_cells on an empty table returns at once.
AnalyzeNothing ==
    /\ ppc = "analyze_all_cells"
    /\ IsEmptyDf(analyzer.trans_df)
    /\ ppc' = "analysed"
    /\ UNCHANGED <<files, skip_filtering, trans_df, names_df, metadata_df,
                   checked, analyzer, row_idx, isnad_file, result, inner>>

\* One batch: the rows start_idx .. end_idx - 1, then gc.collect().
AnalyzeChunk ==
    /\ ppc = "analyze_all_cells"
    /\ ~IsEmptyDf(analyzer.trans_df)
    /\ row_idx < Len(analyzer.trans_df.rows)
    /\ analyzer' =
           AnalyzeRows(analyzer, row_idx,
                       ChunkEnd(row_idx, Len(analyzer.trans_df.rows)))
    /\ row_idx' = row_idx + chunk_size
    /\ UNCHANGED <<ppc, files, skip_filtering, trans_df, names_df,
                   metadata_df, checked, isnad_file, result, inner>>

\* range(0, len(self.trans_df), chunk_size) is exhausted.
AnalyzeEnd ==
    /\ ppc = "analyze_all_cells"
    /\ ~IsEmptyDf(analyzer.trans_df)
    /\ row_idx >= Len(analyzer.trans_df.rows)
    /\ ppc' = "analysed"
    /\ UNCHANGED <<files, skip_filtering, trans_df, names_df, metadata_df,
                   checked, analyzer, row_idx, isnad_file, result, inner>>

NextBatch ==
    \/ NewAnalyzer
    \/ AnalyzeNothing
    \/ AnalyzeChunk
    \/ AnalyzeEnd

SpecBatch == InitBatch /\ [][NextBatch]_vars

(***************************************************************************)
(* Paths with a gap.  generate_network_data is called by a caller of its   *)
(* own, or by process_isnad_network on names files in which a row leaves   *)
(* the middle slot without a name.                                         *)
(***************************************************************************)
GapNameRows ==
    { [path_id |-> Int64(1), isnad_id |-> Str("jb_001"),
       t1 |-> Str("A"), t2 |-> Str("B"), t3 |-> NaN],
      \* t2 without a name between t1 and t3
      [path_id |-> Int64(2), isnad_id |-> Str("jb_005"),
       t1 |-> Str("A"), t2 |-> NaN, t3 |-> Str("B")] }

GapNameFiles ==
    { Table(cols, rows) :
        cols \in NameColumns,
        rows \in UNION { [1..n -> GapNameRows] : n \in 0..MaxRows } }

InitGap ==
    \/ Init
    \/ /\ NoAside
       /\ files \in [trans_file : TransFiles, names_file : GapNameFiles,
                     metadata_file : MetadataFiles]
       /\ skip_filtering \in BOOLEAN
       /\ ppc = "start"
       /\ trans_df = None
       /\ names_df = None
       /\ metadata_df = None
       /\ checked = None
       /\ analyzer = None
       /\ row_idx = 0
       /\ isnad_file = [status |-> "untouched"]
       /\ result = None
       /\ isnad_data = None
       /\ pc = "idle"
       /\ clock = 0
       /\ network = EmptyDict
       /\ node_dict = EmptyDict
       /\ unique_nodes = {}
       /\ unique_edges = {}
       /\ path_idx = 0
       /\ i = 0
       /\ path_entry = EmptyDict
       /\ file = [status |-> "untouched"]
       /\ returned = None
       /\ first = None

NextGap ==
    \/ ValidateNone
    \/ NoOutputFile
    \/ NextPipeline

SpecGap == InitGap /\ [][NextGap]_vars

(***************************************************************************)
(* Vocabulary of the classification properties.                            *)
(***************************************************************************)
\* CellAnalyzer ran on a non-empty cell.
Analysed == cell_analyzer # None /\ cell_analyzer.analysis # None

\* "at least one keyword of the set occurs in the text"
HasIndicator(text, indicators) ==
    \E word \in Range(indicators) : Contains(text, word)

\* The cell's text with every Arabic comma written as a plain comma.
PlainCommas(cell) == Str(Replace(cell.str, ArabicComma, Comma))

\* C11: a cell whose term list is non-empty is classified mixed iff its
\* original text holds a riwayah and a tilawah indicator, riwayah iff it
\* holds a riwayah and no tilawah indicator, tilawah iff it holds a tilawah
\* and no riwayah indicator, other iff it holds neither; and the term list
\* is the one of the same text with plain commas for the Arabic ones.
C11_ClassifiedByIndicators ==
    (Analysed /\ cell_analyzer.analysis.terms # <<>>) =>
        LET term == cell_analyzer.analysis
            r == HasIndicator(term.original_text, riwayah_indicators)
            t == HasIndicator(term.original_text, tilawah_indicators)
            class == term.primary_classification
        IN  /\ (class = "mixed") <=> (r /\ t)
            /\ (class = "riwayah") <=> (r /\ ~t)
            /\ (class = "tilawah") <=> (t /\ ~r)
            /\ (class = "other") <=> (~r /\ ~t)
            /\ term.terms = TransmissionTerm(PlainCommas(cell_value)).terms

\* A mixed cell whose two indicators an Arabic comma separates.
C11_Witness ==
    /\ Analysed
    /\ cell_value = Str(Qaraatu \o <<ArabicComma>> \o Haddathana)
    /\ cell_analyzer.analysis.terms = <<Qaraatu, Haddathana>>
    /\ cell_analyzer.analysis.primary_classification = "mixed"

\* The term record kept for the cell, None when there is none.
TermRecord == CellToDict(cell_analyzer)

\* The cell's text leaves no term after splitting and stripping.
NoTerms(cell) ==
    \/ IsEmptyCell(cell)
    \/ ExtractTerms(Strip(cell.str)) = <<>>

\* C12: an annotation cell yields no term record when it is null, empty or
\* its term list is empty after splitting, and otherwise a term record
\* classified riwayah, tilawah, mixed or other; never a record classified
\* unknown.
C12_NoUnknownRecord ==
    cell_analyzer # None =>
        IF NoTerms(cell_value)
        THEN TermRecord = None
        ELSE /\ TermRecord # None
             /\ TermRecord.primary_classification
                    \in {"riwayah", "tilawah", "mixed", "other"}

(***************************************************************************)
(* Vocabulary of the pipeline properties.                                  *)
(***************************************************************************)
\* process_isnad_network has made the path-data dict.
Described == isnad_data # None /\ "term_statistics" \in DOMAIN isnad_data

\* The sum of a histogram's counts.
RECURSIVE SumCounts(_)
SumCounts(histogram) ==
    IF DOMAIN histogram = {} THEN 0
    ELSE LET cl == CHOOSE c \in DOMAIN histogram : TRUE
         IN  histogram[cl]
                 + SumCounts([c \in DOMAIN histogram \ {cl} |-> histogram[c]])

\* C13: the counts of term_statistics.by_classification add up to the
\* number of non-empty cells analysed (cells_with_value), also when an
\* identifier value occurs in more than one row of the terms table.
C13_HistogramCountsEveryCell ==
    Described =>
        SumCounts(isnad_data.term_statistics.by_classification)
            = isnad_data.metadata.cells_with_value

\* The step of process_isnad_network that calls check_dimensions.
DimensionCheck == ppc = "check" /\ ppc' = "checked"

\* The conditions check_dimensions tests, on the tables it is given.
NamesHaveId == HasColumn(names_df, "path_id")

TransHaveId == HasColumn(trans_df, "path_id")

RowCountsEqual == Len(names_df.rows) = Len(trans_df.rows)

MetadataHasId == metadata_df = None \/ HasColumn(metadata_df, "path_id")

\* C14: the dimension check reports valid iff the names table and the
\* terms table have the identifier column, both have as many rows, and the
\* metadata table, when there is one, has the identifier column; the report
\* names each failed condition and no other; the three tables are left as
\* they were.
C14_DimensionCheckReport ==
    [][DimensionCheck =>
        LET details == checked'.mismatch_details
        IN  /\ checked'.is_valid <=>
                    (NamesHaveId /\ TransHaveId /\ RowCountsEqual
                        /\ MetadataHasId)
            /\ ("missing_path_id_in_names" \in DOMAIN details)
                    <=> ~NamesHaveId
            /\ ("missing_path_id_in_trans" \in DOMAIN details)
                    <=> ~TransHaveId
            /\ ("row_count_mismatch" \in DOMAIN details)
                    <=> ~RowCountsEqual
            /\ ~RowCountsEqual =>
                    details.row_count_mismatch
                        = [names_df |-> Len(names_df.rows),
                           trans_df |-> Len(trans_df.rows)]
            /\ ("missing_path_id_in_metadata" \in DOMAIN details)
                    <=> ~MetadataHasId
            /\ UNCHANGED <<names_df, trans_df, metadata_df>>]_vars

\* The check has failed on the row counts alone.
C14_Witness ==
    /\ ppc = "checked"
    /\ ~checked.is_valid
    /\ DOMAIN checked.mismatch_details = {"row_count_mismatch"}
    /\ NamesHaveId /\ TransHaveId /\ MetadataHasId /\ ~RowCountsEqual

\* process_isnad_network is past the check and the filter.
PastFilter ==
    /\ checked # None
    /\ ppc \in {"analyze", "describe", "build", "generate", "generating",
                "returned"}

\* filter_invalid_records was called.
FilterRan == "filtered_count" \in DOMAIN checked

\* The metadata table as read, None without a metadata file.
MetadataAsRead ==
    IF files.metadata_file # None THEN ReadCsv(files.metadata_file) ELSE None

\* The three tables are the ones read from the files.
TablesAsRead ==
    /\ names_df = ReadCsv(files.names_file)
    /\ trans_df = ReadCsv(files.trans_file)
    /\ metadata_df = MetadataAsRead

\* C15: filtering runs iff the dimension check failed and skip_filtering
\* is false; when the check passed or skip_filtering is true, cell analysis
\* and path building work on the tables as they were read, and processing
\* goes on to cell analysis without an error result.
C15_FilterOnlyOnFailedCheck ==
    PastFilter =>
        /\ FilterRan <=> (~checked.is_valid /\ ~skip_filtering)
        /\ (checked.is_valid \/ skip_filtering) =>
                /\ TablesAsRead
                /\ ppc = "analyze" => result = None
                /\ analyzer # None =>
                        /\ analyzer.names_df = ReadCsv(files.names_file)
                        /\ analyzer.trans_df = ReadCsv(files.trans_file)
                        /\ analyzer.metadata_df = MetadataAsRead

\* A failed check with skip_filtering set: paths are built from the
\* tables as read.
C15_Witness ==
    /\ PastFilter
    /\ ~checked.is_valid
    /\ skip_filtering
    /\ ~FilterRan
    /\ ppc = "build"
    /\ row_idx > 0
    /\ TablesAsRead

\* The identifier values a table holds, null apart, as numbers.
Identifiers(df) ==
    {Num(cell) : cell \in {df.rows[k].path_id : k \in 1..Len(df.rows)}
                              \ {NaN}}

\* The table has a row whose identifier is null.
HasNullId(df) == \E k \in 1..Len(df.rows) : df.rows[k].path_id = NaN

\* The identifiers the names file and the terms file have in common.
CommonIds ==
    Identifiers(ReadCsv(files.names_file))
        \cap Identifiers(ReadCsv(files.trans_file))

\* filter_invalid_records ran on a names table and a terms table that both
\* have the identifier column.
Filtered ==
    /\ PastFilter
    /\ FilterRan
    /\ NamesHaveId
    /\ TransHaveId

\* C16: after filter_invalid_records on tables that both have the
\* identifier column, the identifiers of the filtered names table are those
\* of the filtered terms table and are the non-null identifiers the two
\* inputs have in common; a metadata table with the identifier column holds
\* only such identifiers.
C16_FilteredIdentifiersAgree ==
    Filtered =>
        /\ ~HasNullId(names_df)
        /\ ~HasNullId(trans_df)
        /\ Identifiers(names_df) = CommonIds
        /\ Identifiers(trans_df) = CommonIds
        /\ (metadata_df # None /\ HasColumn(metadata_df, "path_id")) =>
                /\ ~HasNullId(metadata_df)
                /\ Identifiers(metadata_df) \subseteq CommonIds

\* The filter dropped a names row and a terms row and kept one of each.
C16_Witness ==
    /\ Filtered
    /\ CommonIds # {}
    /\ Len(names_df.rows) < Len(ReadCsv(files.names_file).rows)
    /\ Len(trans_df.rows) < Len(ReadCsv(files.trans_file).rows)

\* The dimension check found different row counts.
RowCountMismatch == "row_count_mismatch" \in DOMAIN checked.mismatch_details

\* C17: after filtering triggered by a row-count mismatch between the
\* names table and the terms table, the two filtered tables have as many
\* rows as each other, also when an identifier is repeated in a table.
C17_FilteredTablesEqualLength ==
    (Filtered /\ RowCountMismatch) =>
        Len(names_df.rows) = Len(trans_df.rows)

\* The rows filter_invalid_records removed from the names table and from
\* the terms table.
NamesRemoved == Len(ReadCsv(files.names_file).rows) - Len(names_df.rows)

TransRemoved == Len(ReadCsv(files.trans_file).rows) - Len(trans_df.rows)

\* C18: the count filter_invalid_records returns is the number of records
\* the filter removed: it is above zero whenever a row was removed from the
\* names table or from the terms table, and zero when none was.
C18_FilteredCountReportsRemovals ==
    Filtered =>
        (checked.filtered_count > 0)
            <=> (NamesRemoved > 0 \/ TransRemoved > 0)

(***************************************************************************)
(* Vocabulary of the chain-length properties.                              *)
(***************************************************************************)
\* compare_chain_lengths has returned the frame of a comparison.
Compared ==
    /\ Comparable
    /\ mismatch_df # None
    /\ "rows" \in DOMAIN mismatch_df

\* The first row of the table with this identifier.
FirstRow(df, id) ==
    df.rows[CHOOSE k \in 1..Len(df.rows) :
                /\ NumEq(df.rows[k].path_id, Float64(id))
                /\ \A j \in 1..(k - 1) :
                       ~NumEq(df.rows[j].path_id, Float64(id))]

\* The slot values of a row that are neither null nor the empty string
\* (written "" for a name and <<>> for an annotation text).
FilledSlots(row, empty) ==
    Cardinality({col \in DOMAIN row :
                    /\ col \in {"t1", "t2", "t3"}
                    /\ row[col] # NaN
                    /\ row[col] # Str(empty)})

\* The identifiers with a row in the names table and in the terms table.
SharedIds == Identifiers(names_df) \cap Identifiers(trans_df)

\* The mismatch records reported for an identifier.
RecordsOf(id) ==
    {k \in 1..Len(mismatch_df.rows) :
        NumEq(mismatch_df.rows[k].path_id, Float64(id))}

\* C19: for each identifier with a row in both tables there is one mismatch
\* record exactly when the first matching names row and the first matching
\* terms row differ in their count of non-empty slot values, and none
\* otherwise; the record holds the two counts and difference = names_length
\* - trans_length; no record is reported for an identifier without a row
\* in both tables, and none twice.
C19_MismatchPerSharedIdentifier ==
    Compared =>
        /\ \A id \in SharedIds :
              LET names_length == FilledSlots(FirstRow(names_df, id), "")
                  trans_length == FilledSlots(FirstRow(trans_df, id), <<>>)
              IN  IF names_length # trans_length
                  THEN /\ Cardinality(RecordsOf(id)) = 1
                       /\ \A k \in RecordsOf(id) :
                            LET record == mismatch_df.rows[k]
                            IN  /\ record.names_length = names_length
                                /\ record.trans_length = trans_length
                                /\ record.difference
                                       = names_length - trans_length
                  ELSE RecordsOf(id) = {}
        /\ \A k \in 1..Len(mismatch_df.rows) :
              /\ mismatch_df.rows[k].path_id # NaN
              /\ Num(mismatch_df.rows[k].path_id) \in SharedIds

\* Two names in the first row of identifier 1, one term: the record says
\* the names are one ahead; identifier 2 has no terms row and no record.
C19_Witness ==
    /\ Compared
    /\ 1 \in SharedIds
    /\ 2 \in Identifiers(names_df) \ SharedIds
    /\ Len(mismatch_df.rows) = 1
    /\ mismatch_df.rows[1].names_length = 2
    /\ mismatch_df.rows[1].trans_length = 1
    /\ mismatch_df.rows[1].difference = 1

\* The first matching rows of every shared identifier have as many
\* non-empty slot values as each other.
CountsAgree ==
    \A id \in SharedIds :
        FilledSlots(FirstRow(names_df, id), "")
            = FilledSlots(FirstRow(trans_df, id), <<>>)

\* C20: when the names table and the terms table have the same count of
\* non-empty slot values for every shared identifier, compare_chain_lengths
\* returns a mismatch report without rows and writes no report file.
C20_AgreeingTablesGiveEmptyReport ==
    (Comparable /\ mismatch_df # None /\ CountsAgree) =>
        /\ mismatch_df = [columns |-> MismatchColumns, rows |-> <<>>]
        /\ report_file = [status |-> "untouched"]

\* Identifier 1 has two names and two annotations: nothing is reported.
C20_Witness ==
    /\ Compared
    /\ 1 \in SharedIds
    /\ FilledSlots(FirstRow(names_df, 1), "") = 2
    /\ FilledSlots(FirstRow(trans_df, 1), <<>>) = 2
    /\ mismatch_df.rows = <<>>
    /\ report_file = [status |-> "untouched"]

(***************************************************************************)
(* Vocabulary of the serialization properties: reading a written network   *)
(* back, as json.loads does.                                               *)
(***************************************************************************)
JSONDecodeError == [error |-> "JSONDecodeError"]

\* The k-th piece of a text, or the end of the text.
At(text, k) == IF k \in 1..Len(text) THEN text[k] ELSE [eof |-> TRUE]

\* An array is read from the piece after its "[": elements separated by
\* commas, then "]".  The value is [items, next] or JSONDecodeError.
RECURSIVE LoadArray(_, _, _)
LoadArray(text, k, items) ==
    IF items = <<>> /\ At(text, k) = Punct("]")
    THEN [items |-> <<>>, next |-> k + 1]
    ELSE IF "json" \notin DOMAIN At(text, k) THEN JSONDecodeError
    ELSE IF At(text, k + 1) = Punct("]")
         THEN [items |-> Append(items, At(text, k).json), next |-> k + 2]
    ELSE IF At(text, k + 1) = Punct(",")
         THEN LoadArray(text, k + 2, Append(items, At(text, k).json))
    ELSE JSONDecodeError

\* The members "nodes", "edges", "paths" are read from piece k on, each
\* after a comma; the value is the record of the arrays read, or
\* JSONDecodeError.
RECURSIVE LoadMembers(_, _, _, _)
LoadMembers(text, k, n, members) ==
    IF n > Len(ArrayKeys)
    THEN IF At(text, k) = Punct("}") /\ k = Len(text)
         THEN members ELSE JSONDecodeError
    ELSE IF /\ At(text, k) = Punct(",")
            /\ At(text, k + 1) = Key(ArrayKeys[n])
            /\ At(text, k + 2) = Punct(":")
            /\ At(text, k + 3) = Punct("[")
         THEN LET array == LoadArray(text, k + 4, <<>>)
              IN  IF array = JSONDecodeError THEN JSONDecodeError
                  ELSE LoadMembers(text, array.next, n + 1,
                           (ArrayKeys[n] :> array.items) @@ members)
         ELSE JSONDecodeError

\* json.loads of a written network.
Loads(written) ==
    LET text == SelectSeq(written, LAMBDA piece : "ws" \notin DOMAIN piece)
    IN  IF /\ At(text, 1) = Punct("{")
           /\ At(text, 2) = Key("metadata")
           /\ At(text, 3) = Punct(":")
           /\ "json" \in DOMAIN At(text, 4)
        THEN LoadMembers(text, 5, 1, [metadata |-> At(text, 4).json])
        ELSE JSONDecodeError

\* How many commas a text holds.
Commas(written) == Len(SelectSeq(written, LAMBDA piece : piece = Punct(",")))

\* The commas that separate n elements.
Separators(n) == IF n > 0 THEN n - 1 ELSE 0

\* The incremental writer has written the network file.
Streamed == file.status = "streamed"

\* C21: the streamed document holds every node, edge and path once, in
\* insertion order, with a comma after every element but the last of its
\* array, so that it reads back as the network, the value a single
\* whole-document serialization denotes.
C21_StreamedDocumentIsTheNetwork ==
    Streamed =>
        /\ Loads(file.content) = returned
        /\ Loads(file.content) = Loads(JsonDump(returned))
        /\ Commas(file.content) =
               3 + Separators(Len(returned.nodes))
                 + Separators(Len(returned.edges))
                 + Separators(Len(returned.paths))

\* A streamed network of several nodes, one edge and several paths.
C21_Witness ==
    /\ Streamed
    /\ Len(returned.nodes) >= 2
    /\ Len(returned.edges) = 1
    /\ Len(returned.paths) >= 2
    /\ Loads(file.content) = returned

\* The network file holds a whole document.
Written(f) == f.status \in {"streamed", "dumped"}

\* C22: when the incremental write of a non-empty network fails, the
\* whole-document serialization is tried, once: the step after the failure
\* is that attempt and the call returns after it, whatever its outcome; the
\* whole-document write is tried only after a failed incremental write; and
\* whether streaming succeeded, the fallback succeeded or both failed, the
\* assembled network is returned as it was before the writing.
C22_OneFallbackAndNetworkReturned ==
    [][/\ pc' = "fallback" =>
              (pc = "write" /\ ~Written(file'))
       /\ pc = "fallback" =>
              (pc' = "done" /\ file'.status \in {"dumped", file.status,
                                                  "partial"})
       /\ (pc = "write" /\ file'.status = "dumped") => FALSE
       /\ (pc = "write" /\ ~Written(file') /\ ppc # "direct") =>
              pc' = "fallback"
       /\ (pc \in {"write", "fallback"} /\ pc' = "done") =>
              /\ network' = network
              /\ returned' = network
              /\ returned'.metadata.node_count = Len(network.nodes)
              /\ returned'.metadata.edge_count = Len(network.edges)]_vars

\* Both writes failed and the network of a path list with nodes is
\* returned.
C22_Witness ==
    /\ pc = "done"
    /\ PathsOf(isnad_data) # <<>>
    /\ file.status = "partial"
    /\ returned = network
    /\ Len(returned.nodes) >= 2

\* process_isnad_network has returned the success result.
Succeeded ==
    /\ ppc = "returned"
    /\ result # None
    /\ result.status = "success"

\* C23: when the incremental write and the whole-document fallback both
\* fail, the caller is told: the result it receives differs from that of a
\* run whose network file was written, so the success result is only
\* returned when the file holds the network.
C23_WriteFailureReported ==
    (Succeeded /\ PathsOf(isnad_data) # <<>>) => Written(file)

\* process_isnad_network has returned the error result with this text.
Failed(error) ==
    /\ ppc = "returned"
    /\ result # None
    /\ result.status = "error"
    /\ result.error = error

\* C24: process_isnad_network ends by returning a status with a result or
\* an error description and no exception leaves it; when an input file
\* cannot be read the error result comes before any analysis or output;
\* when the path data cannot be written the error result comes without
\* network generation being started; otherwise the success result holds
\* the node and edge counts of the assembled network.
C24_AlwaysAStatusResult ==
    /\ ppc # "raised"
    /\ ppc = "returned" =>
           /\ result # None
           /\ result.status \in {"success", "error"}
           /\ result.status = "error" => "error" \in DOMAIN result
    /\ Failed("Failed to read input files") =>
           /\ analyzer = None
           /\ isnad_data = None
           /\ isnad_file = [status |-> "untouched"]
           /\ file = [status |-> "untouched"]
    /\ Failed("Failed to write isnad data") =>
           /\ pc = "idle"
           /\ returned = None
           /\ file = [status |-> "untouched"]
    /\ Succeeded =>
           /\ result.node_count = Len(returned.nodes)
           /\ result.edge_count = Len(returned.edges)

\* The identifiers valid in the names table and in the terms table; none
\* when a table has no identifier column.
IdsValidInBoth ==
    IF NamesHaveId /\ TransHaveId
    THEN Identifiers(names_df) \cap Identifiers(trans_df)
    ELSE {}

\* Every row of the table has an identifier valid in both tables.
Restricted(df) ==
    \A k \in 1..Len(df.rows) :
        /\ HasColumn(df, "path_id")
        /\ df.rows[k].path_id # NaN
        /\ Num(df.rows[k].path_id) \in IdsValidInBoth

\* C25: when the names table or the terms table lacks the identifier
\* column the check reports it, and then either filtering is disabled and
\* process_isnad_network stops with an error result, or filtering is
\* enabled and the tables are restricted to the identifiers valid in both.
C25_MissingIdFatalOrFiltered ==
    (PastFilter /\ (~NamesHaveId \/ ~TransHaveId)) =>
        /\ ~checked.is_valid
        /\ ("missing_path_id_in_names" \in DOMAIN checked.mismatch_details)
               <=> ~NamesHaveId
        /\ ("missing_path_id_in_trans" \in DOMAIN checked.mismatch_details)
               <=> ~TransHaveId
        /\ skip_filtering =>
               (ppc = "returned" /\ result.status = "error")
        /\ ~skip_filtering =>
               (FilterRan /\ Restricted(names_df) /\ Restricted(trans_df))

(***************************************************************************)
(* Vocabulary of the batching property.                                    *)
(***************************************************************************)
\* analyze_all_cells is running or has returned.
Analysing == ppc \in {"analyze_all_cells", "analysed"}

\* The rows the batches begun so far cover.
RowsDone ==
    IF row_idx < Len(trans_df.rows) THEN row_idx ELSE Len(trans_df.rows)

\* The non-empty annotation cells of the first n rows, as <<row, column>>.
CellsWithValue(n) ==
    {cell \in (1..n) \X {"t1", "t2"} :
        /\ trans_df.rows[cell[1]][cell[2]] # NaN
        /\ trans_df.rows[cell[1]][cell[2]] # Str(<<>>)}

\* The mixed-mode cells among them.
MixedCells(n) ==
    {cell \in CellsWithValue(n) :
        IsMixedMode(CellAnalyzer(trans_df.rows[cell[1]][cell[2]], "id"))}

\* C26: batching changes nothing: whatever the row count, after every
\* batch the analyzer is what one pass over the rows covered so far makes
\* of a new analyzer, every non-empty cell of those rows is counted once
\* and has its analysis, the mixed-mode cells are listed once each, and at
\* the end every row is covered.
C26_BatchesAreOnePass ==
    Analysing =>
        /\ analyzer =
               AnalyzeRows(IsnadAnalyzer(trans_df, names_df, metadata_df),
                           0, RowsDone)
        /\ analyzer.cells_with_value_count
               = Cardinality(CellsWithValue(RowsDone))
        /\ Cardinality(DOMAIN analyzer.cell_analyses)
               = Cardinality(CellsWithValue(RowsDone))
        /\ Len(analyzer.mixed_mode_cells) = Cardinality(MixedCells(RowsDone))
        /\ ppc = "analysed" => RowsDone = Len(trans_df.rows)

\* Two full batches and one row more have been analysed.
C26_Witness ==
    /\ ppc = "analysed"
    /\ Len(trans_df.rows) = 2 * chunk_size + 1
    /\ row_idx = 3 * chunk_size
    /\ analyzer.cells_with_value_count > 2 * chunk_size
    /\ CellId(Int64(2 * chunk_size + 1), "t1")
           \in DOMAIN analyzer.cell_analyses

\* The ids of the nodes and of the edges of a network.
NodeIds(net) == {net.nodes[k].id : k \in 1..Len(net.nodes)}

EdgeIds(net) == {net.edges[k].id : k \in 1..Len(net.edges)}

\* Every reference made in net, or in the path summary entry, is to a node
\* or an edge of net.
Integral(net, entry) ==
    /\ \A k \in 1..Len(net.edges) :
           /\ net.edges[k].source \in NodeIds(net)
           /\ net.edges[k].target \in NodeIds(net)
    /\ \A summary \in Range(net.paths) \cup {entry} :
           /\ Range(summary.nodes) \subseteq NodeIds(net)
           /\ Range(summary.edges) \subseteq EdgeIds(net)

\* metadata.node_count and metadata.edge_count are the lengths of the lists.
Counted(net) ==
    /\ "node_count" \in DOMAIN net.metadata
    /\ "edge_count" \in DOMAIN net.metadata
    /\ net.metadata.node_count = Len(net.nodes)
    /\ net.metadata.edge_count = Len(net.edges)

NoEntry == [nodes |-> <<>>, edges |-> <<>>]

\* C27: in every state of the assembly, and in the network returned, the
\* source and the target of every edge are ids of nodes in the node list,
\* and every id listed by a path summary (the one under construction
\* included) is the id of a node or an edge that exists; once the statistics
\* are set, and in the network returned, node_count and edge_count are the
\* lengths of the node list and the edge list.
C27_ReferencesResolve ==
    /\ Assembling =>
           Integral(network, IF pc = "slots" THEN path_entry ELSE NoEntry)
    /\ Assembled => Counted(network)
    /\ pc = "done" => Integral(returned, NoEntry) /\ Counted(returned)

\* C27's case: a network is returned with two edges between two nodes,
\* listed by two path summaries.
C27_Witness ==
    /\ pc = "done"
    /\ Len(returned.nodes) >= 2
    /\ Len(returned.edges) >= 2
    /\ \E p, q \in 1..Len(returned.paths) :
           /\ p # q
           /\ returned.paths[p].edges # <<>>
           /\ returned.paths[q].edges # <<>>

\* The names in populated slots read so far: those of the paths before the
\* current one, and those of the current path up to the slot at hand (the
\* source of the hop from that slot included).
NamesSeen ==
    UNION {PopulatedNames(PathsOf(isnad_data)[p]) : p \in 1..path_idx}
    \cup LET names == NamesOf(CurrentPath)
             cols == TColumns(names)
         IN  {names[cols[k]] : k \in {k \in 1..(i + 1) :
                                         Populated(names, cols[k])}}

\* C28: a step of the slot loop adds an edge only at a hop (the slot and
\* the next one both populated) whose target name was read before: in an
\* earlier path, in an earlier slot of this path, or as the source of the
\* hop.  At a hop whose target name is read for the first time the step
\* adds no edge to the network and none to the path's summary.
C28_EdgeOnlyToKnownTarget ==
    [][(pc = "slots" /\ i' = i + 1)
          => /\ network'.edges # network.edges
                    => /\ (i + 1) \in Hops(CurrentPath)
                       /\ HopTarget(CurrentPath, i + 1) \in NamesSeen
             /\ ((i + 1) \in Hops(CurrentPath)
                    /\ HopTarget(CurrentPath, i + 1) \notin NamesSeen)
                    => /\ network'.edges = network.edges
                       /\ path_entry'.edges = path_entry.edges]_vars

\* C28's case: the first path has a hop and no edge, its target being new
\* at the hop; the second path has made an edge to a name the first left.
C28_Witness ==
    /\ pc = "slots"
    /\ path_idx = 1
    /\ Hops(PathsOf(isnad_data)[1]) # {}
    /\ Len(network.paths) = 1
    /\ network.paths[1].edges = <<>>
    /\ i \in Hops(CurrentPath)
    /\ HopSource(CurrentPath, i) # HopTarget(CurrentPath, i)
    /\ path_entry.edges # <<>>

\* The path summaries there are: those appended to the network, and the
\* one under construction while the slots of a path are read.
Summaries ==
    network.paths \o (IF pc = "slots" THEN <<path_entry>> ELSE <<>>)

\* The places (summary, position) at which an edge id is listed.
Listings(id) ==
    {place \in (1..Len(Summaries)) \X (1..Len(network.edges)) :
        /\ place[2] <= Len(Summaries[place[1]].edges)
        /\ Summaries[place[1]].edges[place[2]] = id}

\* The position in the edge list of the edge with the given id.
EdgeIndex(id) == CHOOSE k \in 1..Len(network.edges) : network.edges[k].id = id

\* C29: at every point of the assembly each edge id is listed at exactly
\* one place of exactly one path summary, whose path_id and isnad_id are the
\* ones stored on the edge, and the ids a summary lists are in the order of
\* the edge list.  The summary is that of the path whose processing made the
\* edge: a path starts with an empty list, a step that adds an edge appends
\* its id to the list of the path at hand, whose path_id the edge carries,
\* and a step that adds none leaves the list as it is, so that a path that
\* makes no edge keeps its list empty whatever hops it has.
C29_EdgeListedOnceByItsPath ==
    /\ [](Assembling =>
            /\ \A k \in 1..Len(network.edges) :
                   /\ Cardinality(Listings(network.edges[k].id)) = 1
                   /\ \A place \in Listings(network.edges[k].id) :
                          /\ Summaries[place[1]].path_id
                                 = network.edges[k].path_id
                          /\ Summaries[place[1]].isnad_id
                                 = network.edges[k].isnad_id
            /\ \A p \in 1..Len(Summaries) :
                   \A a, b \in 1..Len(Summaries[p].edges) :
                       a < b => EdgeIndex(Summaries[p].edges[a])
                                   < EdgeIndex(Summaries[p].edges[b]))
    /\ [][(pc = "paths" /\ pc' = "slots") => path_entry'.edges = <<>>]_vars
    /\ [][(pc = "slots" /\ i' = i + 1)
             => IF Len(network'.edges) = Len(network.edges)
                THEN path_entry'.edges = path_entry.edges
                ELSE LET edge == network'.edges[Len(network'.edges)]
                     IN  /\ Len(network'.edges) = Len(network.edges) + 1
                         /\ path_entry'.edges
                                = Append(path_entry.edges, edge.id)
                         /\ edge.path_id = PathId(CurrentPath, path_idx)
                         /\ edge.isnad_id = IsnadId(CurrentPath)]_vars

\* C29's case: the first path has a hop and an empty list, the second has
\* made two edges and lists both, and it carries a path_id of its own.
C29_Witness ==
    /\ Assembled
    /\ Len(network.paths) = 2
    /\ Hops(PathsOf(isnad_data)[1]) # {}
    /\ network.paths[1].edges = <<>>
    /\ Len(network.paths[2].edges) = 2
    /\ network.paths[2].path_id = "p1"
    /\ network.paths[1].path_id # "p1"

\* The path records are built and handed to generate_network_data.
Built == ppc \in {"generate", "generating", "returned"} /\ isnad_data # None

\* The slot columns there are.
SlotNames == Range(SlotCols)

\* The names mapping has t1 and t3 populated and no key t2.
GapOmitted(names) ==
    /\ Populated(names, "t1")
    /\ Populated(names, "t3")
    /\ "t2" \notin DOMAIN names

\* The names mapping has t1 and t3 populated and an empty t2.
GapKept(names) ==
    /\ Populated(names, "t1")
    /\ Populated(names, "t3")
    /\ "t2" \in DOMAIN names
    /\ ~Populated(names, "t2")

\* C30: the names mapping of a path built by process_isnad_network has a
\* key for the populated slots of its row only.  In generate_network_data,
\* when a path's mapping has t1 and t3 populated and no key t2, the step for
\* t1 takes t3 as the next slot: if the name of t3 has a node already, the
\* network has after the step an edge from the node of t1's name to the
\* node of t3's name typed by the term of t1, and an edge the step adds is
\* that edge.  When the mapping has t2 present and empty, no step on the
\* path adds an edge.
C30_AdjacencyOverPresentSlots ==
    /\ [](Built =>
            \A p \in 1..Len(PathsOf(isnad_data)) :
                LET row == RowSeries(names_df, p)
                    names == NamesOf(PathsOf(isnad_data)[p])
                IN  /\ \A c \in DOMAIN names : Populated(names, c)
                    /\ \A c \in SlotNames :
                           c \in DOMAIN row =>
                               (c \in DOMAIN names
                                   <=> NotNa(row[c]) /\ row[c] # Str("")))
    /\ [][(pc = "slots" /\ i' = i + 1)
             => LET names == NamesOf(CurrentPath)
                IN  /\ (GapOmitted(names) /\ i = 0
                           /\ names.t3 \in DOMAIN node_dict)
                          => /\ EdgesFor(network', names.t1, names.t3,
                                         HopClass(CurrentPath, 1)) # {}
                             /\ network'.edges # network.edges
                                    => Len(network'.edges)
                                           \in EdgesFor(network', names.t1,
                                                        names.t3,
                                                        HopClass(CurrentPath,
                                                                 1))
                    /\ GapKept(names) => network'.edges = network.edges]_vars

\* C30's case: process_isnad_network has read a row with t1 and t3 and no
\* t2, and the step for t1 of its path has added an edge to the node of
\* t3's name, typed by a term that is known.
C30_Witness ==
    /\ ppc = "generating"
    /\ pc = "slots"
    /\ GapOmitted(NamesOf(CurrentPath))
    /\ ~NotNa(RowSeries(names_df, path_idx + 1).t2)
    /\ i = 1
    /\ path_entry.edges # <<>>
    /\ network.edges[Len(network.edges)].type # "unknown"
====
